---------------------------- MODULE Spec2Model ----------------------------
(***************************************************************************)
(* The motion sequencer of spark-splat: the React component               *)
(* MotionSequencer (one effect with cleanup), the host state of App and    *)
(* Scene that drives it (isPlaying, replay key, store blocks), the block   *)
(* factories of motionBlocks.ts and the GSAP master timeline that renders  *)
(* the block segments onto the camera rig.                                 *)
(*                                                                         *)
(* Units.  Lengths of a config are tenths of a world unit and angles are   *)
(* degrees.  An eased progress value p in [0,1] is the integer p * PScale. *)
(* A rig quantity is stored as (config unit) * PScale, so that the code's  *)
(* from + delta * p is the integer  from + delta * P.  Time is counted in  *)
(* seconds; damping factors in hundredths (0.05 is 5).                     *)
(***************************************************************************)
EXTENDS Integers, Sequences, FiniteSets, TLC

\* ------------------------------------------------------------------ bounds
MaxRuns == 2
MaxDt == 2
MaxTimers == 1
MaxBlocks == 2
MaxNow == 2

MaxFrames == 3

MaxImports == 1
DampingValues == {5, 25}

\* ------------------------------------------------------- program constants
PScale == 2 * 27
OverrideDamping == 5
InitialDampingRef == 5
ModelRadius == 20
FullTurn == 360 * PScale
HalfTurn == 180 * PScale

\* ------------------------------------------------------------ small helpers
Min(a, b) == IF a < b THEN a ELSE b

Abs(a) == IF a < 0 THEN 0 - a ELSE a

\* JavaScript's % : the remainder takes the sign of the dividend.
JsRem(a, b) == IF a >= 0 THEN a % b ELSE 0 - ((0 - a) % b)

\* An optional value is the empty set (undefined) or a singleton.
None == {}

Some(v) == {v}

\* a ?? b
Coalesce(opt, default) == IF opt = {} THEN default ELSE CHOOSE v \in opt : TRUE

\* ----------------------------------------------------------- block configs
\* A block id is the sequence of its "-"-separated parts: "dolly" is
\* <<"dolly">> and "dolly-173" is <<"dolly", "173">>.
NoState == [azimuth |-> None, polar |-> None, distance |-> None,
            center |-> None, fov |-> None, roll |-> None]

Cfg(id) == [id |-> id, duration |-> None, distanceDelta |-> None,
            angleDelta |-> None, truckX |-> None, truckAmount |-> None,
            arcAngle |-> None, rotate |-> None, dolly |-> None,
            truck |-> None, startState |-> None, endState |-> None,
            to |-> None, truckY |-> None, zoomFov |-> None,
            bezierCurve |-> None, ease |-> None]

\* The block types of the editor's catalog.
blockTypes == {"moveTo", "composite", "dolly", "pan", "truck", "tilt",
               "pedestal", "roll", "zoom", "dollyZoom", "arc", "bezierCurve"}

\* The keys of blockMap, and the members every plain object inherits from
\* Object.prototype (blockMap[k] is truthy for these as well).
OwnKeys == {"dolly", "pan", "truck", "arc", "composite", "moveTo"}

InheritedKeys == {"constructor", "toString", "valueOf", "hasOwnProperty",
                  "isPrototypeOf", "propertyIsEnumerable", "toLocaleString",
                  "__proto__"}

\* blockMap[config.id]: the whole id string is the property name.
BlockMapLookup(id) ==
    IF Len(id) = 1 /\ id[1] \in OwnKeys THEN [kind |-> "factory", key |-> id[1]]
    ELSE IF Len(id) = 1 /\ id[1] \in InheritedKeys
         THEN [kind |-> "inherited", key |-> id[1]]
         ELSE [kind |-> "undefined", key |-> ""]

\* duration ?? default of the factory
DefaultDuration(key) ==
    IF key \in {"arc", "dollyZoom", "bezierCurve"} THEN 3
    ELSE IF key = "roll" THEN 1 ELSE 2

Duration(key, cfg) == Coalesce(cfg.duration, DefaultDuration(key))

\* execute() of every factory puts one tween on its timeline, but for
\* bezierCurve without a bezierCurve object: it warns and returns the
\* timeline empty.
HasTween(key, cfg) == ~(key = "bezierCurve" /\ cfg.bezierCurve = {})

\* the length of the timeline execute() returns
TimelineDuration(key, cfg) == IF HasTween(key, cfg) THEN Duration(key, cfg) ELSE 0

\* ------------------------------------------------------------------ the rig
InitRig(d) == [damping |-> d, azimuth |-> 0, polar |-> 90 * PScale,
               distance |-> 50 * PScale, center |-> <<0, 0>>,
               fov |-> 45 * PScale, roll |-> 0, swing |-> 0,
               perspective |-> TRUE]

\* Values a block holds between its start hook and its update hook.
InitialCapture == [az |-> 0, pol |-> 0, dist |-> 0, center |-> <<0, 0>>,
                   fov |-> 50 * PScale, roll |-> 0, swing |-> 0,
                   lastProgress |-> 0]

InitialSeg == [from |-> InitialCapture, end |-> InitialCapture,
               prog |-> -1, endRig |-> InitRig(0)]

\* as if the end azimuth were taken as it is given
getRawAngle(start, end) == end

getShortestAngle(start, end) ==
    LET d0 == JsRem(JsRem(end - start, FullTurn) + FullTurn, FullTurn)
        diff == IF d0 > HalfTurn THEN d0 - FullTurn ELSE d0
    IN  start + diff

applyStartState(rig, startState) ==
    IF startState = {} THEN rig
    ELSE LET ss == CHOOSE v \in startState : TRUE
         IN  [rig EXCEPT
                !.azimuth = IF ss.azimuth # {}
                            THEN Coalesce(ss.azimuth, 0) * PScale ELSE @,
                !.polar = IF ss.polar # {}
                          THEN Coalesce(ss.polar, 0) * PScale ELSE @,
                !.distance = IF ss.distance # {}
                             THEN Coalesce(ss.distance, 0) * PScale ELSE @,
                !.center = IF ss.center # {}
                           THEN <<Coalesce(ss.center, <<0, 0>>)[1] * PScale,
                                  Coalesce(ss.center, <<0, 0>>)[2] * PScale>>
                           ELSE @,
                \* the up vector is turned about the forward axis from where it is
                !.roll = IF ss.roll # {}
                         THEN @ + Coalesce(ss.roll, 0) * PScale ELSE @,
                !.fov = IF ss.fov # {} /\ rig.perspective
                        THEN Coalesce(ss.fov, 0) * PScale ELSE @]

\* as if the interpolation did not start from the captured value
LerpFromZero(a, b, P) == (b * P) \div PScale

\* start + (end - start) * p
Lerp(a, b, P) == a + ((b - a) * P) \div PScale

\* The ease "power2.inOut" (the default of every factory) at local/dur,
\* times PScale:  p < 1/2 ? 4p^3 : 1 - (2 - 2p)^3 / 2.
Ease(local, dur) ==
    IF 2 * local < dur
    THEN (4 * local * local * local * PScale) \div (dur * dur * dur)
    ELSE PScale - ((2 * dur - 2 * local) * (2 * dur - 2 * local)
                   * (2 * dur - 2 * local) * PScale) \div (2 * dur * dur * dur)

\* ------------------------------------------------------- the block factories
\* onStart of a block: applyStartState, then the block's captures of the
\* rig r that applyStartState left.
dollyCapture(seg, r) ==
    [rig |-> r, seg |-> [seg EXCEPT !.from.dist = r.distance]]

dollyStart(cfg, seg, rig) ==
    dollyCapture(seg, applyStartState(rig, cfg.startState))

dollyUpdate(cfg, seg, rig, P) ==
    [rig |-> [rig EXCEPT !.distance = seg.from.dist
                  + Coalesce(cfg.distanceDelta, ModelRadius \div 2) * P],
     seg |-> seg]

\* Pan keeps the camera position and turns the view vector about world-up:
\* the orbit azimuth of the camera about the carried target changes by the
\* same angle (polar and distance are unchanged by a turn about world-up);
\* swing is the angle by which the target has been carried.
panCapture(seg, r) ==
    [rig |-> r,
     seg |-> [seg EXCEPT !.from.az = r.azimuth, !.from.swing = r.swing]]

panStart(cfg, seg, rig) ==
    panCapture(seg, applyStartState(rig, cfg.startState))

panUpdate(cfg, seg, rig, P) ==
    [rig |-> [rig EXCEPT
                !.azimuth = seg.from.az + Coalesce(cfg.angleDelta, 45) * P,
                !.swing = seg.from.swing + Coalesce(cfg.angleDelta, 45) * P],
     seg |-> seg]

truckStart(cfg, seg, rig) ==
    [rig |-> applyStartState(rig, cfg.startState),
     seg |-> [seg EXCEPT !.from.lastProgress = 0]]

\* as if every update translated by the whole progress again
truckUpdateWhole(cfg, seg, rig, P) ==
    [rig |-> [rig EXCEPT !.center[1] = @
                  + Coalesce(cfg.truckX,
                             Coalesce(cfg.truckAmount, ModelRadius \div 2)) * P],
     seg |-> [seg EXCEPT !.from.lastProgress = P]]

truckUpdate(cfg, seg, rig, P) ==
    [rig |-> [rig EXCEPT !.center[1] = @
                  + Coalesce(cfg.truckX,
                             Coalesce(cfg.truckAmount, ModelRadius \div 2))
                    * (P - seg.from.lastProgress)],
     seg |-> [seg EXCEPT !.from.lastProgress = P]]

arcCapture(seg, r) ==
    [rig |-> r,
     seg |-> [seg EXCEPT !.from.az = r.azimuth, !.from.dist = r.distance]]

arcStart(cfg, seg, rig) ==
    arcCapture(seg, applyStartState(rig, cfg.startState))

arcUpdate(cfg, seg, rig, P) ==
    [rig |-> [rig EXCEPT
                !.azimuth = seg.from.az + Coalesce(cfg.arcAngle, 90) * P,
                !.distance = seg.from.dist
                    + Coalesce(cfg.distanceDelta, (ModelRadius * 3) \div 10) * P],
     seg |-> seg]

compositeCapture(seg, r) ==
    [rig |-> r,
     seg |-> [seg EXCEPT !.from.az = r.azimuth, !.from.pol = r.polar,
                         !.from.dist = r.distance, !.from.lastProgress = 0]]

compositeStart(cfg, seg, rig) ==
    compositeCapture(seg, applyStartState(rig, cfg.startState))

\* the parts of a composite config, with every part optional
compositeRotate(cfg) == Coalesce(cfg.rotate, [azimuth |-> None, polar |-> None])

compositeTruck(cfg) == Coalesce(cfg.truck, [x |-> None, y |-> None])

\* as if an omitted dolly fell back to the dolly block's default distance
compositeApplyDefaults(cfg, seg, rig, P, rot, tx, ty) ==
    [rig |-> [rig EXCEPT
                !.azimuth = IF cfg.rotate # {} /\ rot.azimuth # {}
                            THEN seg.from.az + Coalesce(rot.azimuth, 0) * P ELSE @,
                !.polar = IF cfg.rotate # {} /\ rot.polar # {}
                          THEN seg.from.pol + Coalesce(rot.polar, 0) * P ELSE @,
                !.distance = seg.from.dist
                             + Coalesce(cfg.dolly, ModelRadius \div 2) * P,
                !.center = IF cfg.truck # {} /\ (tx # 0 \/ ty # 0)
                           THEN <<@[1] + tx, @[2] + ty>> ELSE @],
     seg |-> [seg EXCEPT !.from.lastProgress = P]]

compositeApply(cfg, seg, rig, P, rot, tx, ty) ==
    [rig |-> [rig EXCEPT
                !.azimuth = IF cfg.rotate # {} /\ rot.azimuth # {}
                            THEN seg.from.az + Coalesce(rot.azimuth, 0) * P ELSE @,
                !.polar = IF cfg.rotate # {} /\ rot.polar # {}
                          THEN seg.from.pol + Coalesce(rot.polar, 0) * P ELSE @,
                !.distance = IF cfg.dolly # {}
                             THEN seg.from.dist + Coalesce(cfg.dolly, 0) * P ELSE @,
                !.center = IF cfg.truck # {} /\ (tx # 0 \/ ty # 0)
                           THEN <<@[1] + tx, @[2] + ty>> ELSE @],
     seg |-> [seg EXCEPT !.from.lastProgress = P]]

compositeUpdate(cfg, seg, rig, P) ==
    compositeApply(cfg, seg, rig, P, compositeRotate(cfg),
        Coalesce(compositeTruck(cfg).x, 0) * (P - seg.from.lastProgress),
        Coalesce(compositeTruck(cfg).y, 0) * (P - seg.from.lastProgress))

\* config values in the rig's units, where given
Scaled(opt) == IF opt = {} THEN {} ELSE {Coalesce(opt, 0) * PScale}

ScaledPt(opt) ==
    IF opt = {} THEN {}
    ELSE {<<Coalesce(opt, <<0, 0>>)[1] * PScale,
            Coalesce(opt, <<0, 0>>)[2] * PScale>>}

\* moveTo's start state: read from the rig, but for the roll
moveToFrom(seg, r) ==
    [seg.from EXCEPT !.az = r.azimuth, !.pol = r.polar,
                     !.dist = r.distance, !.center = r.center,
                     !.fov = IF r.perspective THEN r.fov ELSE @,
                     !.roll = 0]

\* as if the legacy "to" were asked before endState
moveToEndLegacyFirst(seg, r, start, endState, to) ==
    [seg.end EXCEPT
       !.az = getShortestAngle(start.az,
                  Coalesce(Scaled(to.azimuth),
                           Coalesce(Scaled(endState.azimuth), start.az))),
       !.pol = Coalesce(Scaled(to.polar),
                        Coalesce(Scaled(endState.polar), start.pol)),
       !.dist = Coalesce(Scaled(to.distance),
                         Coalesce(Scaled(endState.distance), start.dist)),
       !.center = Coalesce(ScaledPt(to.target),
                           Coalesce(ScaledPt(endState.center), start.center)),
       !.fov = IF endState.fov # {} /\ r.perspective
               THEN Coalesce(Scaled(endState.fov), 0) ELSE start.fov,
       !.roll = Coalesce(Scaled(endState.roll), start.roll)]

\* moveTo's end state: endState, else the legacy "to", else the start value
moveToEnd(seg, r, start, endState, to) ==
    [seg.end EXCEPT
       !.az = getShortestAngle(start.az,
                  Coalesce(Scaled(endState.azimuth),
                           Coalesce(Scaled(to.azimuth), start.az))),
       !.pol = Coalesce(Scaled(endState.polar),
                        Coalesce(Scaled(to.polar), start.pol)),
       !.dist = Coalesce(Scaled(endState.distance),
                         Coalesce(Scaled(to.distance), start.dist)),
       !.center = Coalesce(ScaledPt(endState.center),
                           Coalesce(ScaledPt(to.target), start.center)),
       !.fov = IF endState.fov # {} /\ r.perspective
               THEN Coalesce(Scaled(endState.fov), 0) ELSE start.fov,
       !.roll = Coalesce(Scaled(endState.roll), start.roll)]

moveToCapture(cfg, seg, r, start) ==
    [rig |-> r,
     seg |-> [seg EXCEPT
                !.from = start,
                !.end = moveToEnd(seg, r, start, Coalesce(cfg.endState, NoState),
                            Coalesce(cfg.to, [azimuth |-> None, polar |-> None,
                                              distance |-> None, target |-> None]))]]

moveToRead(cfg, seg, r) == moveToCapture(cfg, seg, r, moveToFrom(seg, r))

moveToStart(cfg, seg, rig) ==
    moveToRead(cfg, seg, applyStartState(rig, cfg.startState))

moveToApply(rig, start, end, P) ==
    [rig EXCEPT !.azimuth = Lerp(start.az, end.az, P),
                !.polar = Lerp(start.pol, end.pol, P),
                !.distance = Lerp(start.dist, end.dist, P),
                !.center = <<Lerp(start.center[1], end.center[1], P),
                             Lerp(start.center[2], end.center[2], P)>>,
                !.fov = IF rig.perspective
                        THEN Lerp(start.fov, end.fov, P) ELSE @,
                \* world-up turned by the interpolated roll
                !.roll = IF end.roll # start.roll
                         THEN Lerp(start.roll, end.roll, P) ELSE @]

moveToUpdate(cfg, seg, rig, P) ==
    [rig |-> moveToApply(rig, seg.from, seg.end, P), seg |-> seg]

tiltCapture(seg, r) ==
    [rig |-> r, seg |-> [seg EXCEPT !.from.pol = r.polar]]

tiltStart(cfg, seg, rig) ==
    tiltCapture(seg, applyStartState(rig, cfg.startState))

tiltUpdate(cfg, seg, rig, P) ==
    [rig |-> [rig EXCEPT
                !.polar = seg.from.pol + Coalesce(cfg.angleDelta, 30) * P],
     seg |-> seg]

pedestalStart(cfg, seg, rig) ==
    [rig |-> applyStartState(rig, cfg.startState),
     seg |-> [seg EXCEPT !.from.lastProgress = 0]]

pedestalUpdate(cfg, seg, rig, P) ==
    [rig |-> [rig EXCEPT !.center[2] = @
                  + Coalesce(cfg.truckY, ModelRadius \div 2)
                    * (P - seg.from.lastProgress)],
     seg |-> [seg EXCEPT !.from.lastProgress = P]]

\* Roll turns the up vector it found at its start about the forward axis.
rollCapture(seg, r) ==
    [rig |-> r, seg |-> [seg EXCEPT !.from.roll = r.roll]]

rollStart(cfg, seg, rig) ==
    rollCapture(seg, applyStartState(rig, cfg.startState))

rollUpdate(cfg, seg, rig, P) ==
    [rig |-> [rig EXCEPT
                !.roll = seg.from.roll + Coalesce(cfg.angleDelta, 30) * P],
     seg |-> seg]

zoomCapture(seg, r) ==
    [rig |-> r,
     seg |-> [seg EXCEPT !.from.fov = IF r.perspective THEN r.fov ELSE @]]

zoomStart(cfg, seg, rig) ==
    zoomCapture(seg, applyStartState(rig, cfg.startState))

\* as if the field of view were written on any camera
zoomUpdateAnyCamera(cfg, seg, rig, P) ==
    [rig |-> [rig EXCEPT
                !.fov = Lerp(seg.from.fov, Coalesce(cfg.zoomFov, 20) * PScale, P)],
     seg |-> seg]

zoomUpdate(cfg, seg, rig, P) ==
    [rig |-> [rig EXCEPT
                !.fov = IF rig.perspective
                        THEN Lerp(seg.from.fov,
                                  Coalesce(cfg.zoomFov, 20) * PScale, P)
                        ELSE @],
     seg |-> seg]

\* Math.tan of half the field of view, in millionths, for the fields of
\* view the configs of this model reach.
TanHalf(fov) ==
    CASE fov = (50 * PScale) \div 9 -> 48519
      [] fov = 10 * PScale -> 87489
      [] fov = 20 * PScale -> 176327
      [] fov = 30 * PScale -> 267949
      [] fov = 45 * PScale -> 414214
      [] fov = 50 * PScale -> 466308

dollyZoomCapture(seg, r) ==
    [rig |-> r,
     seg |-> [seg EXCEPT !.from.fov = IF r.perspective THEN r.fov
                                      ELSE 45 * PScale,
                         !.from.dist = r.distance]]

dollyZoomStart(cfg, seg, rig) ==
    dollyZoomCapture(seg, applyStartState(rig, cfg.startState))

\* as if the distance were compensated by the ratio of the fields of view
dollyZoomApplyLinear(seg, rig, currentFov) ==
    [rig EXCEPT !.fov = currentFov,
                !.distance = (seg.from.dist * seg.from.fov) \div currentFov]

dollyZoomApply(seg, rig, currentFov) ==
    [rig EXCEPT !.fov = currentFov,
                !.distance = (seg.from.dist * TanHalf(seg.from.fov))
                             \div TanHalf(currentFov)]

dollyZoomUpdate(cfg, seg, rig, P) ==
    [rig |-> IF rig.perspective
             THEN dollyZoomApply(seg, rig,
                      Lerp(seg.from.fov, Coalesce(cfg.zoomFov, 10) * PScale, P))
             ELSE rig,
     seg |-> seg]

\* bezierCurve with a bezierCurve object: onStart reads the camera and the
\* config (it does not call applyStartState); onUpdate puts the camera on
\* the curve with setLookAt.  The point of the curve is not represented;
\* of the rig's state the look-at target is, when the config gives one and
\* the orientation is not maintained.
bezierCurveStart(cfg, seg, rig) == [rig |-> rig, seg |-> seg]

bezierLooksAt(bc) == ~Coalesce(bc.maintainOrientation, FALSE) /\ bc.lookAtTarget # {}

bezierCurveApply(seg, rig, bc) ==
    [rig |-> [rig EXCEPT
                !.center = IF bezierLooksAt(bc)
                           THEN <<Coalesce(bc.lookAtTarget, <<0, 0>>)[1] * PScale,
                                  Coalesce(bc.lookAtTarget, <<0, 0>>)[2] * PScale>>
                           ELSE @],
     seg |-> seg]

bezierCurveUpdate(cfg, seg, rig, P) ==
    bezierCurveApply(seg, rig, CHOOSE bc \in cfg.bezierCurve : TRUE)

\* block.execute's onStart / onUpdate of the factory that blockMap gave
BlockStart(key, cfg, seg, rig) ==
    CASE key = "dolly" -> dollyStart(cfg, seg, rig)
      [] key = "pan" -> panStart(cfg, seg, rig)
      [] key = "truck" -> truckStart(cfg, seg, rig)
      [] key = "arc" -> arcStart(cfg, seg, rig)
      [] key = "composite" -> compositeStart(cfg, seg, rig)
      [] key = "moveTo" -> moveToStart(cfg, seg, rig)
      [] key = "tilt" -> tiltStart(cfg, seg, rig)
      [] key = "pedestal" -> pedestalStart(cfg, seg, rig)
      [] key = "roll" -> rollStart(cfg, seg, rig)
      [] key = "zoom" -> zoomStart(cfg, seg, rig)
      [] key = "dollyZoom" -> dollyZoomStart(cfg, seg, rig)
      [] key = "bezierCurve" -> bezierCurveStart(cfg, seg, rig)

BlockUpdate(key, cfg, seg, rig, P) ==
    CASE key = "dolly" -> dollyUpdate(cfg, seg, rig, P)
      [] key = "pan" -> panUpdate(cfg, seg, rig, P)
      [] key = "truck" -> truckUpdate(cfg, seg, rig, P)
      [] key = "arc" -> arcUpdate(cfg, seg, rig, P)
      [] key = "composite" -> compositeUpdate(cfg, seg, rig, P)
      [] key = "moveTo" -> moveToUpdate(cfg, seg, rig, P)
      [] key = "tilt" -> tiltUpdate(cfg, seg, rig, P)
      [] key = "pedestal" -> pedestalUpdate(cfg, seg, rig, P)
      [] key = "roll" -> rollUpdate(cfg, seg, rig, P)
      [] key = "zoom" -> zoomUpdate(cfg, seg, rig, P)
      [] key = "dollyZoom" -> dollyZoomUpdate(cfg, seg, rig, P)
      [] key = "bezierCurve" -> bezierCurveUpdate(cfg, seg, rig, P)

\* ------------------------------------------------- the store's block arrays
\* Arrays the store can hold: built in the editor, or loaded from a file
\* (a file's ids are arbitrary non-empty strings).
SeqEmpty == << >>

\* a start state that names every field but roll (what the editor captures)
Snap(az, dist) ==
    [azimuth |-> {az}, polar |-> {90}, distance |-> {dist},
     center |-> {<<0, 0>>}, fov |-> {45}, roll |-> None]

SeqRoll ==
    << [Cfg(<<"dolly">>) EXCEPT !.duration = {1}, !.distanceDelta = {10},
           !.startState = {[Snap(0, 40) EXCEPT !.roll = {30}]}],
       [Cfg(<<"moveTo">>) EXCEPT !.duration = {2},
           !.endState = {[NoState EXCEPT !.azimuth = {350}, !.roll = {60}]}],
       [Cfg(<<"truck">>) EXCEPT !.duration = {1}, !.truckX = {5}] >>

SeqSkip ==
    << [Cfg(<<"dolly">>) EXCEPT !.startState = {Snap(0, 40)}],
       Cfg(<<"bogusType">>),
       [Cfg(<<"pan">>) EXCEPT !.duration = {1}],
       [Cfg(<<"tilt">>) EXCEPT !.duration = {1}] >>

SeqInstance ==
    << [Cfg(<<"dolly", "173">>) EXCEPT !.duration = {1}],
       [Cfg(<<"arc">>) EXCEPT !.duration = {2},
           !.startState = {[Snap(10, 50) EXCEPT !.distance = None]}],
       [Cfg(<<"composite">>) EXCEPT !.duration = {1}, !.dolly = {5},
           !.rotate = {[azimuth |-> None, polar |-> {10}]},
           !.truck = {[x |-> {2}, y |-> None]}] >>

SeqInherited ==
    << [Cfg(<<"dolly">>) EXCEPT !.duration = {1}, !.startState = {Snap(0, 40)}],
       Cfg(<<"constructor">>),
       [Cfg(<<"pan">>) EXCEPT !.duration = {1}] >>

SeqCatalog == {SeqEmpty, SeqRoll, SeqSkip, SeqInstance, SeqInherited}

\* ------------------------------------------------------------ the sequencer
\* sequenceIds.forEach: a config whose lookup is undefined is skipped; a
\* lookup that yields an inherited member is truthy, is called as a factory
\* and block.execute(...) then throws a TypeError out of the effect.
\* as if a bare string were given the duration the editor gives new blocks
ItemConfigWithDefaults(item) ==
    IF "str" \in DOMAIN item THEN [Cfg(item.str) EXCEPT !.duration = {2}]
    ELSE item

\* typeof item === 'string' ? { id: item } : item.  A bare string is the
\* record [str |-> id], a BlockConfig is the record Cfg gives.
ItemConfig(item) ==
    IF "str" \in DOMAIN item THEN Cfg(item.str) ELSE item

RECURSIVE AssembleFrom(_, _, _)
AssembleFrom(seq, i, segs) ==
    IF i > Len(seq) THEN [segs |-> segs, threw |-> FALSE]
    ELSE LET blockFactory == BlockMapLookup(ItemConfig(seq[i]).id)
         IN  CASE blockFactory.kind = "factory" ->
                    AssembleFrom(seq, i + 1,
                        Append(segs, [key |-> blockFactory.key,
                                      cfg |-> ItemConfig(seq[i]),
                                      index |-> i]))
               [] blockFactory.kind = "undefined" -> AssembleFrom(seq, i + 1, segs)
               [] blockFactory.kind = "inherited" -> [segs |-> segs, threw |-> TRUE]

Assemble(seq) == AssembleFrom(seq, 1, << >>)

RECURSIVE SumDurations(_, _)
SumDurations(segs, n) ==
    IF n = 0 THEN 0
    ELSE SumDurations(segs, n - 1) + TimelineDuration(segs[n].key, segs[n].cfg)

\* as if every segment were put at the start: mainTl.add(blockTimeline, 0)
StartOffsetZero(segs, i) == SumDurations(segs, 0)

\* mainTl.add(blockTimeline): the segment is put at the end of the timeline
StartOffset(segs, i) == SumDurations(segs, i - 1)

TotalDuration(segs) == SumDurations(segs, Len(segs))

\* gsap.timeline({onComplete}) with the assembled segments
NewTimeline(segs) ==
    [status |-> "live", time |-> 0, segs |-> segs,
     st |-> [i \in 1..Len(segs) |-> InitialSeg]]

\* A timeline that is neither live nor paused can do nothing any more; once
\* timelineRef is overwritten no reference to it is left.
Forget(tls) ==
    [r \in 1..Len(tls) |->
        IF tls[r].status \in {"live", "paused"} THEN tls[r]
        ELSE [status |-> tls[r].status, time |-> 0, segs |-> << >>, st |-> << >>]]

\* as if the old timeline were left alone
KillNoop(tls, ref) == tls

\* timelineRef.current?.kill()
Kill(tls, ref) ==
    IF ref # 0 /\ tls[ref].status \in {"live", "paused"}
    THEN [tls EXCEPT ![ref].status = "killed"] ELSE tls

\* timelineRef.current?.pause()
Pause(tls, ref) ==
    IF ref # 0 /\ tls[ref].status = "live"
    THEN [tls EXCEPT ![ref].status = "paused"] ELSE tls

\* as if the cleanup restored the damping and left the timeline running
CleanupNoKill(w) ==
    [w EXCEPT !.rig.damping = w.originalDampingRef,
              !.cancelled = IF w.timelineRef # 0
                               /\ w.tl[w.timelineRef].status \in {"live", "paused"}
                            THEN @ \cup {w.timelineRef} ELSE @]

\* The state one effect run or one cleanup works on:
\*   rig, tl (every timeline made so far, by run number), timelineRef
\*   (0 is null), originalDampingRef, hasCleanup (the last effect run returned
\*   a cleanup), crashed (an effect threw), cancelled (runs that were active
\*   when a cleanup ran).
Cleanup(w) ==
    [w EXCEPT !.tl = Kill(w.tl, w.timelineRef),
              !.rig.damping = w.originalDampingRef,
              !.cancelled = IF w.timelineRef # 0
                               /\ w.tl[w.timelineRef].status \in {"live", "paused"}
                            THEN @ \cup {w.timelineRef} ELSE @]

\* as if playing again went on with the timeline the ref still holds
\* (timelineRef.current.resume()) and built one only when there is none
EffectResume(w, isPlaying, controls, sequenceIds) ==
    IF ~controls THEN [w EXCEPT !.hasCleanup = FALSE]
    ELSE IF isPlaying
    THEN IF w.timelineRef # 0 /\ w.tl[w.timelineRef].status \in {"paused", "killed"}
         THEN [w EXCEPT !.tl[w.timelineRef].status = "live",
                        !.originalDampingRef = w.rig.damping,
                        !.rig.damping = OverrideDamping,
                        !.hasCleanup = TRUE]
         ELSE LET asm == Assemble(sequenceIds)
                  tls == Append(Forget(w.tl), NewTimeline(asm.segs))
                  w1 == [w EXCEPT !.tl = tls,
                                  !.originalDampingRef = w.rig.damping,
                                  !.rig.damping = OverrideDamping]
              IN  IF asm.threw
                  THEN [w1 EXCEPT !.hasCleanup = FALSE, !.crashed = TRUE]
                  ELSE [w1 EXCEPT !.timelineRef = Len(tls), !.hasCleanup = TRUE]
    ELSE [w EXCEPT !.tl = Pause(w.tl, w.timelineRef), !.hasCleanup = TRUE]

Effect(w, isPlaying, controls, sequenceIds) ==
    IF ~controls THEN [w EXCEPT !.hasCleanup = FALSE]
    ELSE IF isPlaying
    THEN LET killed == Kill(w.tl, w.timelineRef)
             asm == Assemble(sequenceIds)
             tls == Append(Forget(killed), NewTimeline(asm.segs))
             w1 == [w EXCEPT !.tl = tls,
                             !.originalDampingRef = w.rig.damping,
                             !.rig.damping = OverrideDamping]
         IN  IF asm.threw
             THEN [w1 EXCEPT !.hasCleanup = FALSE, !.crashed = TRUE]
             ELSE [w1 EXCEPT !.timelineRef = Len(tls), !.hasCleanup = TRUE]
    ELSE [w EXCEPT !.tl = Pause(w.tl, w.timelineRef), !.hasCleanup = TRUE]

\* as if the effect depended on isPlaying and controls only, so that a commit
\* during playback left the run in flight alone
CommitKeepRun(w, isPlaying, controls, sequenceIds, keyChanged) ==
    IF isPlaying /\ controls /\ ~keyChanged /\ w.timelineRef # 0
       /\ w.tl[w.timelineRef].status = "live"
    THEN w
    ELSE Effect(IF keyChanged
                THEN [(IF w.hasCleanup THEN Cleanup(w) ELSE w)
                        EXCEPT !.timelineRef = 0,
                               !.originalDampingRef = InitialDampingRef,
                               !.hasCleanup = FALSE]
                ELSE IF w.hasCleanup THEN Cleanup(w) ELSE w,
                isPlaying, controls, sequenceIds)

\* A commit of the component: the cleanup of the previous effect run (if it
\* returned one), a fresh instance when the key changed, then the effect.
\* Every render of Scene passes a new onComplete, so the effect's
\* dependencies differ at every commit.
Commit(w, isPlaying, controls, sequenceIds, keyChanged) ==
    LET w1 == IF w.hasCleanup THEN Cleanup(w) ELSE w
        w2 == IF keyChanged
              THEN [w1 EXCEPT !.timelineRef = 0,
                              !.originalDampingRef = InitialDampingRef,
                              !.hasCleanup = FALSE]
              ELSE w1
    IN  Effect(w2, isPlaying, controls, sequenceIds)

\* ------------------------------------------------------ the GSAP master run
\* The tween of a segment fires onStart at its first render, then onUpdate.
StartSeg(key, cfg, seg0, rig) ==
    IF seg0.prog = -1 THEN BlockStart(key, cfg, seg0, rig)
    ELSE [rig |-> rig, seg |-> seg0]

UpdateSeg(key, cfg, a, P) == BlockUpdate(key, cfg, a.seg, a.rig, P)

\* the hooks of segment i in this frame, in the order they fire
FrameEvents(evs, r, i, first, P) ==
    (IF first
     THEN Append(evs, [run |-> r, seg |-> i, kind |-> "start", p |-> 0])
     ELSE evs) \o << [run |-> r, seg |-> i, kind |-> "update", p |-> P] >>

\* segment i takes the result b of its hooks at progress P
RecordFrame(g, r, i, first, P, b) ==
    [g EXCEPT !.rig = b.rig,
              !.tl[r].st[i] = [b.seg EXCEPT !.prog = P,
                                            !.endRig = IF P = PScale THEN b.rig ELSE @],
              !.fired = FrameEvents(@, r, i, first, P)]

RenderSeg(g, r, i, sg, seg0, P) ==
    RecordFrame(g, r, i, seg0.prog = -1, P,
                UpdateSeg(sg.key, sg.cfg,
                          StartSeg(sg.key, sg.cfg, seg0, g.rig), P))

\* One render of the master timeline r at playhead T: the segments in array
\* order; a segment is rendered while the playhead is past its start and it
\* has not applied its last frame.  g carries rig, tl and the hooks fired.
RECURSIVE RenderFrom(_, _, _, _)
RenderFrom(g, r, i, T) ==
    IF i > Len(g.tl[r].segs) THEN g
    ELSE IF /\ HasTween(g.tl[r].segs[i].key, g.tl[r].segs[i].cfg)
            /\ T > StartOffset(g.tl[r].segs, i)
            /\ g.tl[r].st[i].prog # PScale
         THEN RenderFrom(
                  RenderSeg(g, r, i, g.tl[r].segs[i], g.tl[r].st[i],
                      Ease(Min(T - StartOffset(g.tl[r].segs, i),
                               Duration(g.tl[r].segs[i].key, g.tl[r].segs[i].cfg)),
                           Duration(g.tl[r].segs[i].key, g.tl[r].segs[i].cfg))),
                  r, i + 1, T)
         ELSE RenderFrom(g, r, i + 1, T)

\* as if the callback were invoked before the damping is restored
MasterCompleteCallbackFirst(g, r) ==
    LET rig1 == [g.rig EXCEPT !.damping = g.originalDampingRef]
    IN  [g EXCEPT !.rig = rig1,
                  !.tl[r].status = "done",
                  !.completions[r] = @ + 1,
                  !.cbDamping[r] = g.rig.damping,
                  !.called = TRUE,
                  !.fired = Append(@, [run |-> r, seg |-> 0,
                                       kind |-> "complete", p |-> PScale])]

\* The master's onComplete: restore the damping, then onComplete?.()
MasterComplete(g, r) ==
    LET rig1 == [g.rig EXCEPT !.damping = g.originalDampingRef]
    IN  [g EXCEPT !.rig = rig1,
                  !.tl[r].status = "done",
                  !.completions[r] = @ + 1,
                  !.cbDamping[r] = rig1.damping,
                  !.called = TRUE,
                  !.fired = Append(@, [run |-> r, seg |-> 0,
                                       kind |-> "complete", p |-> PScale])]

\* The ticker advances a live timeline by dt.
TickOne(g, r, dt) ==
    LET line == g.tl[r]
        total == TotalDuration(line.segs)
        T == Min(line.time + dt, total)
        g1 == RenderFrom([g EXCEPT !.tl[r].time = T], r, 1, T)
    IN  IF T >= total THEN MasterComplete(g1, r) ELSE g1

RECURSIVE TickAll(_, _, _)
TickAll(g, r, dt) ==
    IF r > Len(g.tl) THEN g
    ELSE TickAll(IF g.tl[r].status = "live" THEN TickOne(g, r, dt) ELSE g,
                 r + 1, dt)

\* ------------------------------------------------------------------- state
VARIABLES
    appPlaying,          \* App: const [isPlaying, setIsPlaying] = useState(false)
    propPlaying,         \* the isPlaying the sequencer was last committed with
    blocks,              \* useMotionStore().blocks
    timers,              \* pending setTimeout callbacks of replaySequence
    dirty,               \* a state update is waiting for its render
    keyDirty,            \* the waiting render carries a new replayKey
    controls,            \* useThree(state => state.controls) is not null
    phase,               \* "mounted", "unmounted", "crashed"
    timelineRef,         \* timelineRef.current (0 is null, else a run number)
    originalDampingRef,  \* originalDampingRef.current
    hasCleanup,          \* the last effect run returned its cleanup
    tl,                  \* the master timelines made so far, by run number
    rig,                 \* the CameraControls object and its camera
    cancelled,           \* history: runs that were active when a cleanup ran
    fired,               \* history: the hooks fired by the last step, in order
    completions,         \* history: calls of the completion callback, by run
    cbDamping,           \* history: rig damping seen by the completion callback
    initDamping,         \* history: the rig's damping before any run
    now,                 \* Date.now() as the store reads it
    rig0,                \* history: the rig before the timeline in play was executed on it
    files,               \* the object store of fileStorage.ts: ExportedFile records
    imports,             \* history: importFileToStorage calls, with what they returned
    captured,            \* history: the damping each run saved at its start
    pauseOffset,         \* history: playhead of the run the last pause stopped
    replay,              \* history: progress of the last replay signal
    restarted            \* history: the last step re-ran the effect over a run in flight

vars == <<appPlaying, propPlaying, blocks, timers, dirty, keyDirty, controls,
          phase, timelineRef, originalDampingRef, hasCleanup, tl, rig,
          cancelled, fired, completions, cbDamping, initDamping, now,
          rig0, files, imports, captured,
          pauseOffset, replay, restarted>>

\* After the first render: controls is still null (CameraControls registers
\* itself in its own effect), so the first effect run returned early.
Init ==
    /\ appPlaying = FALSE
    /\ propPlaying = FALSE
    /\ blocks = SeqEmpty
    /\ timers = 0
    /\ dirty = FALSE
    /\ keyDirty = FALSE
    /\ controls = FALSE
    /\ phase = "mounted"
    /\ timelineRef = 0
    /\ originalDampingRef = InitialDampingRef
    /\ hasCleanup = FALSE
    /\ tl = << >>
    /\ initDamping \in DampingValues
    /\ rig = InitRig(initDamping)
    /\ now = 0
    /\ rig0 = rig
    /\ files = {}
    /\ imports = << >>
    /\ cancelled = {}
    /\ fired = << >>
    /\ completions = << >>
    /\ cbDamping = << >>
    /\ captured = << >>
    /\ pauseOffset = 0
    /\ replay = [phase |-> "idle", damping |-> 0]
    /\ restarted = FALSE

World ==
    [rig |-> rig, tl |-> tl, timelineRef |-> timelineRef,
     originalDampingRef |-> originalDampingRef, hasCleanup |-> hasCleanup,
     crashed |-> FALSE, cancelled |-> cancelled]

\* history sequences grow with tl
Pad(h, n) == h \o [i \in 1..(n - Len(h)) |-> 0]

Install(w) ==
    /\ rig' = w.rig
    /\ tl' = w.tl
    /\ timelineRef' = w.timelineRef
    /\ originalDampingRef' = w.originalDampingRef
    /\ hasCleanup' = w.hasCleanup
    /\ cancelled' = w.cancelled
    /\ phase' = IF w.crashed THEN "crashed" ELSE phase
    /\ completions' = Pad(completions, Len(w.tl))
    /\ cbDamping' = Pad(cbDamping, Len(w.tl))
    /\ captured' = IF Len(w.tl) > Len(tl)
                   THEN Append(captured, w.originalDampingRef) ELSE captured
    /\ fired' = << >>

\* The render and commit of the waiting state, with the given new values.
Flush(isPlaying, ctl, sequenceIds) ==
    /\ (isPlaying /\ ctl) => Len(tl) < MaxRuns
    /\ Install(Commit(World, isPlaying, ctl, sequenceIds, keyDirty))
    /\ propPlaying' = isPlaying
    /\ dirty' = FALSE
    /\ keyDirty' = FALSE
    /\ restarted' = /\ propPlaying
                    /\ isPlaying
                    /\ ctl
                    /\ ~keyDirty
                    /\ timelineRef # 0
                    /\ tl[timelineRef].status = "live"
    /\ pauseOffset' = IF propPlaying /\ ~isPlaying
                      THEN IF timelineRef # 0 /\ tl[timelineRef].status = "live"
                           THEN tl[timelineRef].time ELSE 0
                      ELSE IF ~propPlaying /\ isPlaying THEN pauseOffset ELSE 0

\* <CameraControls makeDefault /> registers the controls
ControlsReady ==
    /\ phase = "mounted"
    /\ ~controls
    /\ controls' = TRUE
    /\ Flush(appPlaying, TRUE, blocks)
    /\ replay' = [replay EXCEPT !.phase = IF @ = "queued" THEN "started" ELSE @]
    /\ UNCHANGED <<appPlaying, blocks, timers, initDamping, now, rig0, files, imports>>

\* the Play/Pause button: onClick={() => setIsPlaying(!isPlaying)}
PressPlayPause ==
    /\ phase = "mounted"
    /\ Len(blocks) > 0
    /\ appPlaying' = ~propPlaying
    /\ Flush(~propPlaying, controls, blocks)
    /\ replay' = [replay EXCEPT !.phase = "idle"]
    /\ UNCHANGED <<blocks, timers, controls, initDamping, now, rig0, files, imports>>

\* the editor or a loaded file replaces the store's blocks (any store update
\* renders Scene again)
StoreChange(seq) ==
    /\ phase = "mounted"
    /\ blocks' = seq
    /\ Flush(appPlaying, controls, seq)
    /\ replay' = [replay EXCEPT !.phase = "idle"]
    /\ UNCHANGED <<appPlaying, timers, controls, initDamping, now, rig0, files, imports>>

\* key "p": replaySequence() up to its setTimeout
ReplayKey ==
    /\ phase = "mounted"
    /\ timers < MaxTimers
    /\ timers' = timers + 1
    /\ appPlaying' = FALSE
    /\ replay' = [phase |-> "waiting",
                  damping |-> IF \E r \in 1..Len(tl) : tl[r].status = "live"
                              THEN originalDampingRef ELSE rig.damping]
    /\ IF appPlaying \/ dirty
       THEN Flush(FALSE, controls, blocks)
       ELSE UNCHANGED <<propPlaying, dirty, keyDirty, rig, tl, timelineRef,
                        originalDampingRef, hasCleanup, cancelled, phase,
                        completions, cbDamping, fired, captured, pauseOffset,
                        restarted>>
    /\ UNCHANGED <<blocks, controls, initDamping, now, rig0, files, imports>>

\* the timeout of replaySequence: setReplayKey(prev => prev + 1); setIsPlaying(true)
ReplayTimeout ==
    /\ timers > 0
    /\ timers' = timers - 1
    /\ IF phase = "mounted"
       THEN /\ appPlaying' = TRUE
            /\ keyDirty' = TRUE
            /\ dirty' = TRUE
            /\ replay' = [replay EXCEPT !.phase = IF @ = "waiting" THEN "queued" ELSE @]
       ELSE UNCHANGED <<appPlaying, keyDirty, dirty, replay>>
    /\ fired' = << >>
    /\ restarted' = FALSE
    /\ UNCHANGED <<propPlaying, blocks, controls, phase, timelineRef,
                   originalDampingRef, hasCleanup, tl, rig, cancelled,
                   completions, cbDamping, initDamping, now, rig0, files, imports, captured,
                   pauseOffset>>

\* React renders the waiting update and runs the effect
Render ==
    /\ phase = "mounted"
    /\ dirty
    /\ Flush(appPlaying, controls, blocks)
    /\ replay' = [replay EXCEPT !.phase = IF @ = "queued" /\ controls
                                          THEN "started" ELSE @]
    /\ UNCHANGED <<appPlaying, blocks, timers, controls, initDamping, now, rig0, files, imports>>

\* one frame of the GSAP ticker
Tick(dt) ==
    /\ \E r \in 1..Len(tl) : tl[r].status = "live"
    /\ LET g == TickAll([rig |-> rig, tl |-> tl, fired |-> << >>,
                         completions |-> completions, cbDamping |-> cbDamping,
                         originalDampingRef |-> originalDampingRef,
                         called |-> FALSE], 1, dt)
       IN  /\ rig' = g.rig
           /\ tl' = g.tl
           /\ fired' = g.fired
           /\ completions' = g.completions
           /\ cbDamping' = g.cbDamping
           \* onComplete={() => { console.log(...); setIsPlaying(false) }}
           /\ appPlaying' = IF g.called /\ phase = "mounted" THEN FALSE ELSE appPlaying
           /\ dirty' = (dirty \/ (g.called /\ phase = "mounted" /\ appPlaying))
    /\ replay' = [replay EXCEPT !.phase = IF @ = "started" THEN "idle" ELSE @]
    /\ pauseOffset' = IF propPlaying THEN 0 ELSE pauseOffset
    /\ restarted' = FALSE
    /\ UNCHANGED <<propPlaying, blocks, timers, keyDirty, controls, phase,
                   timelineRef, originalDampingRef, hasCleanup, cancelled,
                   initDamping, now, rig0, files, imports, captured>>

\* the component is removed with its host
Unmount ==
    /\ phase = "mounted"
    /\ phase' = "unmounted"
    /\ LET w == IF hasCleanup THEN Cleanup(World) ELSE World
       IN  /\ rig' = w.rig
           /\ tl' = w.tl
           /\ cancelled' = w.cancelled
    /\ hasCleanup' = FALSE
    /\ fired' = << >>
    /\ restarted' = FALSE
    /\ replay' = [replay EXCEPT !.phase = "idle"]
    /\ UNCHANGED <<appPlaying, propPlaying, blocks, timers, dirty, keyDirty,
                   controls, timelineRef, originalDampingRef, completions,
                   cbDamping, initDamping, now, rig0, files, imports, captured,
                   pauseOffset>>

Next ==
    \/ ControlsReady
    \/ PressPlayPause
    \/ \E seq \in SeqCatalog : StoreChange(seq)
    \/ ReplayKey
    \/ ReplayTimeout
    \/ Render
    \/ \E dt \in 1..MaxDt : Tick(dt)
    \/ Unmount

Spec == Init /\ [][Next]_vars

\* ------------------------------------------------------------------ claims
Runs == 1..Len(tl)

\* created and neither completed nor killed
Active == {r \in Runs : tl[r].status \in {"live", "paused"}}

Playing == {r \in Runs : tl[r].status = "live"}

\* C1: after a completed run, an aborted run and a teardown during playback
\* (a run was started and none is active any more) the rig's damping factor
\* is the value D the rig had before the run was requested.
C1_DampingRestored ==
    (Len(tl) >= 1 /\ Active = {}) => rig.damping = initDamping

\* C2: at most one master timeline is live (created, neither completed nor
\* killed) in every reachable state.
C2_OneActiveRun == Cardinality(Active) <= 1

\* C2 witness: a second run plays after the first was cancelled.
C2_Witness ==
    /\ cancelled # {}
    /\ timelineRef # 0
    /\ timelineRef \notin cancelled
    /\ tl[timelineRef].status = "live"
    /\ tl[timelineRef].time > 0

\* C3: within one run the start hook of block N+1 fires only after block N's
\* update hook has applied p = 1, and block N is never updated once block
\* N+1 has started.
C3_Sequential ==
    [][\A k \in 1..Len(fired') :
         LET e == fired'[k]
         IN  /\ (e.kind = "start" /\ e.seg > 1) =>
                   /\ \/ tl[e.run].st[e.seg - 1].prog = PScale
                      \/ \E j \in 1..(k - 1) :
                            fired'[j] = [run |-> e.run, seg |-> e.seg - 1,
                                         kind |-> "update", p |-> PScale]
                   /\ \A j \in (k + 1)..Len(fired') :
                         ~(fired'[j].run = e.run /\ fired'[j].seg = e.seg - 1)
             /\ (e.kind = "update" /\ e.seg < Len(tl[e.run].segs)) =>
                   tl[e.run].st[e.seg + 1].prog = -1
      ]_vars

\* C3 witness: one frame carries block 1 to p = 1 and starts block 2.
C3_Witness ==
    \E k \in 2..Len(fired) :
        /\ fired[k].kind = "start"
        /\ fired[k].seg = 2
        /\ fired[k - 1] = [run |-> fired[k].run, seg |-> 1,
                           kind |-> "update", p |-> PScale]

\* The rig properties whose value a block keeps as its "from" state.
CapturedFields(key) ==
    CASE key = "dolly" -> {"distance"}
      [] key = "pan" -> {"azimuth", "swing"}
      [] key = "truck" -> {}
      [] key = "arc" -> {"azimuth", "distance"}
      [] key = "composite" -> {"azimuth", "polar", "distance"}
      [] key = "moveTo" -> {"azimuth", "polar", "distance", "center", "fov", "roll"}

FromValue(seg, f) ==
    CASE f = "azimuth" -> <<seg.from.az>>
      [] f = "polar" -> <<seg.from.pol>>
      [] f = "distance" -> <<seg.from.dist>>
      [] f = "center" -> seg.from.center
      [] f = "fov" -> <<seg.from.fov>>
      [] f = "roll" -> <<seg.from.roll>>
      [] f = "swing" -> <<seg.from.swing>>

RigValue(r, f) ==
    CASE f = "azimuth" -> <<r.azimuth>>
      [] f = "polar" -> <<r.polar>>
      [] f = "distance" -> <<r.distance>>
      [] f = "center" -> r.center
      [] f = "fov" -> <<r.fov>>
      [] f = "roll" -> <<r.roll>>
      [] f = "swing" -> <<r.swing>>

Overridden(cfg, f) ==
    /\ cfg.startState # {}
    /\ f # "swing"
    /\ LET ss == Coalesce(cfg.startState, NoState)
       IN  CASE f = "azimuth" -> ss.azimuth # {}
             [] f = "polar" -> ss.polar # {}
             [] f = "distance" -> ss.distance # {}
             [] f = "center" -> ss.center # {}
             [] f = "fov" -> ss.fov # {}
             [] f = "roll" -> ss.roll # {}

\* C4: for adjacent blocks A, B of a run, every "from" value B holds after
\* its start equals the value the rig held after A's final (p = 1) update,
\* for every rig property B's startState does not override.
C4_Continuity ==
    \A r \in Runs : \A i \in 2..Len(tl[r].segs) :
        tl[r].st[i].prog >= 0 =>
            \A f \in CapturedFields(tl[r].segs[i].key) :
                ~Overridden(tl[r].segs[i].cfg, f) =>
                    FromValue(tl[r].st[i], f) = RigValue(tl[r].st[i - 1].endRig, f)

\* C5: the completion callback is invoked exactly once for a run that plays
\* to its end, the rig's damping is by then back at the value the run saved
\* at its start, and a run cancelled before its end never invokes it.
C5_CompletionOnce ==
    \A r \in Runs :
        /\ tl[r].status = "done" =>
              (completions[r] = 1 /\ cbDamping[r] = captured[r])
        /\ tl[r].status # "done" => completions[r] = 0

\* C5 witness: a run has completed whose saved damping is not the override
\* value, and another run was cancelled.
C5_Witness ==
    /\ \E r \in Runs : /\ tl[r].status = "done"
                       /\ completions[r] = 1
                       /\ captured[r] # OverrideDamping
    /\ \E r \in Runs : tl[r].status = "killed"

OrbitState(r) == [r EXCEPT !.damping = 0]

HookEvents(evs) == {k \in 1..Len(evs) : evs[k].kind \in {"start", "update"}}

\* C7: when isPlaying is false the rig keeps the state of the last applied
\* frame and no block hook fires; when isPlaying becomes true again a fresh
\* run begins at block 0 with progress 0, and it is the only one playing.
C7_PauseThenFresh ==
    [][/\ ~propPlaying' =>
             /\ OrbitState(rig') = OrbitState(rig)
             /\ HookEvents(fired') = {}
       /\ (~propPlaying /\ propPlaying' /\ controls') =>
             /\ Len(tl') = Len(tl) + 1
             /\ tl'[Len(tl')].status = "live"
             /\ tl'[Len(tl')].time = 0
             /\ \A i \in 1..Len(tl'[Len(tl')].st) : tl'[Len(tl')].st[i].prog = -1
             /\ {r \in 1..Len(tl') : tl'[r].status = "live"} = {Len(tl')}]_vars

\* C7 witness: a run was paused past its start and playing began again.
C7_Witness ==
    /\ propPlaying
    /\ pauseOffset > 0
    /\ timelineRef # 0
    /\ tl[timelineRef].status = "live"
    /\ tl[timelineRef].time = 0

KnownConfig(cfg) == Len(cfg.id) = 1 /\ cfg.id[1] \in OwnKeys

ConfigsOf(segs) == [k \in 1..Len(segs) |-> segs[k].cfg]

RECURSIVE SumKnown(_, _)
SumKnown(seq, n) ==
    IF n = 0 THEN 0
    ELSE SumKnown(seq, n - 1)
         + (IF KnownConfig(seq[n]) THEN Duration(seq[n].id[1], seq[n]) ELSE 0)

\* C9: the master timeline holds exactly the segments of the configs whose
\* type is a factory key, in array order, its total duration is the sum of
\* their durations, and a config with any other type id raises no error.
C9_UnknownSkipped ==
    /\ phase # "crashed"
    /\ \A r \in Playing :
          /\ ConfigsOf(tl[r].segs) = SelectSeq(blocks, KnownConfig)
          /\ TotalDuration(tl[r].segs) = SumKnown(blocks, Len(blocks))

\* C10: a config whose id is a factory key followed by "-" and an instance
\* suffix is resolved to that key's factory, as the bare key would be.
C10_PrefixResolved ==
    \A r \in Playing : \A i \in 1..Len(blocks) :
        (Len(blocks[i].id) > 1 /\ blocks[i].id[1] \in OwnKeys) =>
            \E k \in 1..Len(tl[r].segs) :
                /\ tl[r].segs[k].index = i
                /\ tl[r].segs[k].key = blocks[i].id[1]

\* C11: each of the twelve catalog block types, given as a config's type id,
\* is resolved by the sequencer to its own factory and contributes a segment
\* to the run.
C11_CatalogResolved ==
    (phase = "mounted" /\ timelineRef # 0 /\ tl[timelineRef].status = "live") =>
        \A i \in 1..Len(blocks) :
            (Len(blocks[i].id) = 1 /\ blocks[i].id[1] \in blockTypes) =>
                \E k \in 1..Len(tl[timelineRef].segs) :
                    /\ tl[timelineRef].segs[k].index = i
                    /\ tl[timelineRef].segs[k].key = blocks[i].id[1]

\* ---------------------------------------------------------------- the store
\* getDefaultOptions(type): { ...base, <the type's defaults>, id: type }
getDefaultOptions(type) ==
    LET base == [Cfg(<<type>>) EXCEPT !.duration = {2}, !.ease = {"power2.inOut"}]
    IN  CASE type = "composite" -> [base EXCEPT !.duration = {3}]
          [] type = "dolly" -> [base EXCEPT !.distanceDelta = {10}]
          [] type = "arc" -> [base EXCEPT !.duration = {3}, !.arcAngle = {90}]
          [] type = "pan" -> [base EXCEPT !.angleDelta = {45}]
          [] type = "tilt" -> [base EXCEPT !.angleDelta = {30}]
          [] type = "pedestal" -> [base EXCEPT !.truckY = {10}]
          [] type = "roll" -> [base EXCEPT !.angleDelta = {30}]
          [] type = "zoom" -> [base EXCEPT !.zoomFov = {20}]
          [] type = "dollyZoom" -> [base EXCEPT !.duration = {3}, !.zoomFov = {10}]
          [] type = "truck" -> [base EXCEPT !.truckAmount = {5}]
          [] OTHER -> base

\* { ...a, ...b }: every property b has replaces a's
Spread(a, b) ==
    [k \in DOMAIN a |-> IF k = "id" \/ b[k] # {} THEN b[k] ELSE a[k]]

\* addBlock: { id: `${type}-${timestamp}`, ...getDefaultOptions(type) }
addBlock(bs, type, timestamp) ==
    Append(bs, Spread(Cfg(<<type, ToString(timestamp)>>),
                      getDefaultOptions(type)))

sequencerVars ==
    <<appPlaying, propPlaying, timers, dirty, keyDirty, controls, phase,
      timelineRef, originalDampingRef, hasCleanup, tl, rig, cancelled, fired,
      completions, cbDamping, initDamping, rig0, captured, pauseOffset, replay,
      restarted>>

\* the editor's "+ type" button
AddBlock(type) ==
    /\ Len(blocks) < MaxBlocks
    /\ blocks' = addBlock(blocks, type, now)
    /\ UNCHANGED <<now, sequencerVars, files, imports>>

\* a millisecond passes
ClockTick ==
    /\ now < MaxNow
    /\ now' = now + 1
    /\ UNCHANGED <<blocks, sequencerVars, files, imports>>

StoreNext ==
    \/ \E type \in blockTypes : AddBlock(type)
    \/ ClockTick

\* The store alone, from its empty initial state.
StoreSpec == Init /\ [][StoreNext]_vars

\* ------------------------------------------- a timeline of blocks by itself
\* block.execute({ controls, radius }) of any factory of motionBlocks.ts,
\* its timelines added back-to-back and played on a rig.
BenchAzimuths == {0, 10, 400, -350}

BenchRolls == {0, 30}

BenchRigs ==
    {[InitRig(OverrideDamping) EXCEPT !.azimuth = a * PScale, !.roll = ro * PScale] :
        a \in BenchAzimuths, ro \in BenchRolls}

\* eased progress values of a frame before the last one, for an ease that
\* is not monotonic and overshoots (back, elastic)
ProgressValues == {0, 27, 60}

BenchStart == [NoState EXCEPT !.polar = {60}, !.distance = {40},
                              !.roll = {30}, !.fov = {50}]

\* a config with opts.ease set to an overshooting ease and with a startState
BenchConfig(cfg) == [cfg EXCEPT !.ease = {"back.inOut"}, !.startState = {BenchStart}]

BenchBezier == [controlPoints |-> None, lookAtTarget |-> {<<1, 2>>},
                maintainOrientation |-> None]

\* composite configs with parameters left out
BenchComposites ==
    {Cfg(<<"composite">>),
     [Cfg(<<"composite">>) EXCEPT !.rotate = {[azimuth |-> {20}, polar |-> None]}],
     [Cfg(<<"composite">>) EXCEPT !.rotate = {[azimuth |-> None, polar |-> {10}]},
                                  !.dolly = {5}],
     [Cfg(<<"composite">>) EXCEPT !.truck = {[x |-> {2}, y |-> None]}],
     [Cfg(<<"composite">>) EXCEPT !.dolly = {0},
                                  !.truck = {[x |-> None, y |-> None]}]}

BenchSingles ==
    {<<BenchConfig(Cfg(<<t>>))>> :
        t \in {"dolly", "pan", "truck", "tilt", "pedestal", "roll", "zoom", "arc"}}
    \cup {<<BenchConfig([Cfg(<<"composite">>) EXCEPT
                !.rotate = {[azimuth |-> {20}, polar |-> {10}]},
                !.dolly = {5},
                !.truck = {[x |-> {2}, y |-> {3}]}])>>,
          <<BenchConfig([Cfg(<<"bezierCurve">>) EXCEPT
                !.bezierCurve = {BenchBezier}])>>,
          <<[Cfg(<<"dollyZoom">>) EXCEPT !.duration = {1},
                                         !.startState = {BenchStart}]>>,
          <<BenchConfig(Cfg(<<"dollyZoom">>))>>}
    \cup {<<BenchConfig(c)>> : c \in BenchComposites}

BenchTo == [azimuth |-> {350}, polar |-> {45}, distance |-> {30},
            target |-> {<<1, 1>>}]

BenchMoves ==
    {<<[Cfg(<<"moveTo">>) EXCEPT !.ease = {"back.inOut"}, !.endState = {es},
                                 !.to = to]>> :
        es \in {NoState,
                [NoState EXCEPT !.azimuth = {190}, !.roll = {60}],
                [NoState EXCEPT !.azimuth = {-170}, !.polar = {120}, !.fov = {30}],
                [NoState EXCEPT !.azimuth = {760}, !.roll = {0}],
                [NoState EXCEPT !.azimuth = {580}, !.center = {<<3, 4>>}]},
        to \in {None, {BenchTo}, {[BenchTo EXCEPT !.polar = None, !.target = None]}}}
    \cup {<<BenchConfig([Cfg(<<"moveTo">>) EXCEPT
                !.endState = {[NoState EXCEPT !.distance = {60}]}])>>}

BenchPairs ==
    {<<Cfg(<<"bezierCurve">>), [Cfg(<<"dolly">>) EXCEPT !.duration = {1}]>>,
     <<[Cfg(<<"roll">>) EXCEPT !.duration = {1}],
       [Cfg(<<"moveTo">>) EXCEPT !.duration = {1},
                                 !.endState = {[NoState EXCEPT !.roll = {60}]}]>>}

BenchCatalog == BenchSingles \cup BenchMoves \cup BenchPairs

\* each config goes to the factory of its type
Compose(seq) ==
    [i \in 1..Len(seq) |-> [key |-> seq[i].id[1], cfg |-> seq[i], index |-> i]]

BenchInitOn(rigs) ==
    /\ appPlaying = FALSE
    /\ propPlaying = FALSE
    /\ blocks \in BenchCatalog
    /\ timers = 0
    /\ dirty = FALSE
    /\ keyDirty = FALSE
    /\ controls = TRUE
    /\ phase = "mounted"
    /\ timelineRef = 0
    /\ originalDampingRef = InitialDampingRef
    /\ hasCleanup = FALSE
    /\ tl = <<NewTimeline(Compose(blocks))>>
    /\ initDamping = OverrideDamping
    /\ rig \in rigs
    /\ now = 0
    /\ rig0 = rig
    /\ files = {}
    /\ imports = << >>
    /\ cancelled = {}
    /\ fired = << >>
    /\ completions = <<0>>
    /\ cbDamping = <<0>>
    /\ captured = <<0>>
    /\ pauseOffset = 0
    /\ replay = [phase |-> "idle", damping |-> 0]
    /\ restarted = FALSE

BenchInit == BenchInitOn(BenchRigs)

benchFrame ==
    <<appPlaying, propPlaying, blocks, timers, dirty, keyDirty, controls, phase,
      timelineRef, originalDampingRef, hasCleanup, cancelled, completions,
      cbDamping, initDamping, now, rig0, files, imports, captured, pauseOffset, replay,
      restarted>>

\* the timeline is over after its last frame
EndAt(tls, over) == IF over THEN [tls EXCEPT ![1].status = "done"] ELSE tls

\* a ticker frame of a timeline whose tweens have the default ease
BlockTick(dt) ==
    /\ tl[1].status = "live"
    /\ \A i \in 1..Len(blocks) : blocks[i].ease = {}
    /\ LET T == Min(tl[1].time + dt, TotalDuration(tl[1].segs))
           g == RenderFrom([rig |-> rig, tl |-> [tl EXCEPT ![1].time = T],
                            fired |-> fired], 1, 1, T)
       IN  /\ rig' = g.rig
           /\ fired' = g.fired
           /\ tl' = EndAt(g.tl, T >= TotalDuration(tl[1].segs))
    /\ UNCHANGED benchFrame

\* a frame of a single tween whose ease gives the progress P; the last
\* frame of a tween has progress 1.  The hooks fired are kept in order; the
\* number of frames before the last one is bounded.
BlockSeek(P) ==
    /\ tl[1].status = "live"
    /\ Len(blocks) = 1
    /\ blocks[1].ease # {}
    /\ P = PScale \/ Len(fired) < MaxFrames
    /\ LET g == RenderSeg([rig |-> rig, tl |-> tl, fired |-> fired], 1, 1,
                          tl[1].segs[1], tl[1].st[1], P)
       IN  /\ rig' = g.rig
           /\ fired' = g.fired
           /\ tl' = EndAt(g.tl, P = PScale)
    /\ UNCHANGED benchFrame

BlockNext ==
    \/ \E dt \in 1..MaxDt : BlockTick(dt)
    \/ \E P \in ProgressValues \cup {PScale} : BlockSeek(P)

BlockSpec == BenchInit /\ [][BlockNext]_vars

\* C12: after any sequence of addBlock calls the ids of the blocks in the
\* store are pairwise distinct.
C12_UniqueIds ==
    \A i, j \in 1..Len(blocks) : i # j => blocks[i].id # blocks[j].id

\* the started segments of the timeline played by itself
BenchStarted(key) ==
    {i \in 1..Len(tl[1].segs) :
        tl[1].segs[i].key = key /\ tl[1].st[i].prog >= 0}

\* the azimuth a moveTo config asks for: endState, else the legacy "to",
\* else the start value
AskedAzimuth(cfg, start) ==
    Coalesce(Scaled(Coalesce(cfg.endState, NoState).azimuth),
             Coalesce(Scaled(Coalesce(cfg.to, [azimuth |-> None]).azimuth),
                      start))

\* C13: the azimuth T a moveTo interpolates to is congruent to the end
\* azimuth modulo a full turn and at most half a turn from the start; it is
\* start + half a turn when the two are half a turn apart in either
\* direction, and the start itself when no end azimuth is given.
C13_ShortestAzimuth ==
    \A i \in BenchStarted("moveTo") :
        LET start == tl[1].st[i].from.az
            T == tl[1].st[i].end.az
            cfg == tl[1].segs[i].cfg
            asked == AskedAzimuth(cfg, start)
        IN  /\ (T - asked) % FullTurn = 0
            /\ Abs(T - start) <= HalfTurn
            /\ (Abs(asked - start) % FullTurn = HalfTurn) => T = start + HalfTurn
            /\ (Coalesce(cfg.endState, NoState).azimuth = {} /\ cfg.to = {})
                  => T = start

\* C13 witness: a moveTo started from an azimuth outside one turn, asked for
\* an azimuth more than a turn away, and goes to another one.
C13_Witness ==
    \E i \in BenchStarted("moveTo") :
        /\ Abs(tl[1].st[i].from.az) > FullTurn
        /\ Abs(AskedAzimuth(tl[1].segs[i].cfg, tl[1].st[i].from.az)
               - tl[1].st[i].from.az) > FullTurn
        /\ tl[1].st[i].end.az
              # AskedAzimuth(tl[1].segs[i].cfg, tl[1].st[i].from.az)

\* the rig as the first block of the timeline finds it after its startState
BenchCaptured == applyStartState(rig0, tl[1].segs[1].cfg.startState)

\* the rig properties an absolute block writes
AbsoluteFields(key, cfg) ==
    CASE key = "dolly" -> {"distance"}
      [] key = "tilt" -> {"polar"}
      [] key = "arc" -> {"azimuth", "distance"}
      [] key = "zoom" -> {"fov"}
      [] key = "composite" ->
            {f \in {"azimuth"} : cfg.rotate # {} /\ compositeRotate(cfg).azimuth # {}}
            \cup {f \in {"polar"} : cfg.rotate # {} /\ compositeRotate(cfg).polar # {}}
            \cup {f \in {"distance"} : cfg.dolly # {}}
      [] key = "moveTo" -> {"azimuth", "polar", "distance", "center", "fov"}
      [] OTHER -> {}

\* the captured value plus the full delta of the config (moveTo: the
\* resolved target)
FullValue(key, cfg, c, seg, f) ==
    CASE key = "dolly" ->
            <<c.distance + Coalesce(cfg.distanceDelta, ModelRadius \div 2) * PScale>>
      [] key = "tilt" -> <<c.polar + Coalesce(cfg.angleDelta, 30) * PScale>>
      [] key = "arc" /\ f = "azimuth" ->
            <<c.azimuth + Coalesce(cfg.arcAngle, 90) * PScale>>
      [] key = "arc" /\ f = "distance" ->
            <<c.distance
              + Coalesce(cfg.distanceDelta, (ModelRadius * 3) \div 10) * PScale>>
      [] key = "zoom" -> <<Coalesce(cfg.zoomFov, 20) * PScale>>
      [] key = "composite" /\ f = "azimuth" ->
            <<c.azimuth + Coalesce(compositeRotate(cfg).azimuth, 0) * PScale>>
      [] key = "composite" /\ f = "polar" ->
            <<c.polar + Coalesce(compositeRotate(cfg).polar, 0) * PScale>>
      [] key = "composite" /\ f = "distance" ->
            <<c.distance + Coalesce(cfg.dolly, 0) * PScale>>
      [] key = "moveTo" /\ f = "azimuth" -> <<seg.end.az>>
      [] key = "moveTo" /\ f = "polar" -> <<seg.end.pol>>
      [] key = "moveTo" /\ f = "distance" -> <<seg.end.dist>>
      [] key = "moveTo" /\ f = "center" -> seg.end.center
      [] key = "moveTo" /\ f = "fov" -> <<seg.end.fov>>

\* C14: an absolute block (dolly, tilt, arc, zoom, the rotate and dolly of a
\* composite, moveTo) leaves in every property it writes the value captured
\* at its start when its progress is 0, and the captured value plus the full
\* delta (moveTo: the resolved target) when its progress is 1.
C14_AbsoluteEnds ==
    \A f \in AbsoluteFields(tl[1].segs[1].key, tl[1].segs[1].cfg) :
        /\ tl[1].st[1].prog = 0
              => RigValue(rig, f) = RigValue(BenchCaptured, f)
        /\ tl[1].st[1].prog = PScale
              => RigValue(rig, f) = FullValue(tl[1].segs[1].key, tl[1].segs[1].cfg,
                                              BenchCaptured, tl[1].st[1], f)

\* C14 witness: an absolute block with a startState has applied its last
\* frame and a property it writes differs from the captured value.
C14_Witness ==
    /\ tl[1].st[1].prog = PScale
    /\ tl[1].segs[1].cfg.startState # {}
    /\ \E f \in AbsoluteFields(tl[1].segs[1].key, tl[1].segs[1].cfg) :
          /\ RigValue(rig, f) # RigValue(BenchCaptured, f)
          /\ RigValue(BenchCaptured, f) # RigValue(rig0, f)

\* the amounts an incremental block translates by along the camera's right
\* and up axes (the arguments of controls.truck), in config units
TruckAmounts(key, cfg) ==
    CASE key = "truck" ->
            <<Coalesce(cfg.truckX, Coalesce(cfg.truckAmount, ModelRadius \div 2)), 0>>
      [] key = "pedestal" -> <<0, Coalesce(cfg.truckY, ModelRadius \div 2)>>
      [] key = "composite" ->
            IF cfg.truck = {} THEN <<0, 0>>
            ELSE <<Coalesce(compositeTruck(cfg).x, 0),
                   Coalesce(compositeTruck(cfg).y, 0)>>
      [] OTHER -> <<0, 0>>

IncrementalKeys == {"truck", "pedestal", "composite"}

\* C15: after every update of an incremental block (truck, pedestal, the
\* truck of a composite) the translation applied since the block's start is
\* the configured amount times the current eased progress, whatever the
\* progress values before; at p = 1 it is the configured amount.
C15_Cumulative ==
    (tl[1].segs[1].key \in IncrementalKeys /\ tl[1].st[1].prog >= 0) =>
        /\ rig.center[1] - BenchCaptured.center[1]
              = TruckAmounts(tl[1].segs[1].key, tl[1].segs[1].cfg)[1]
                * tl[1].st[1].prog
        /\ rig.center[2] - BenchCaptured.center[2]
              = TruckAmounts(tl[1].segs[1].key, tl[1].segs[1].cfg)[2]
                * tl[1].st[1].prog

\* C15 witness: an incremental block with a translation to make has been
\* updated at an overshooting progress, then at a lower one, then at 1.
C15_Witness ==
    /\ tl[1].segs[1].key \in IncrementalKeys
    /\ TruckAmounts(tl[1].segs[1].key, tl[1].segs[1].cfg) # <<0, 0>>
    /\ tl[1].st[1].prog = PScale
    /\ \E j, k \in 1..Len(fired) :
          /\ j < k
          /\ fired[j].kind = "update" /\ fired[k].kind = "update"
          /\ fired[j].p > PScale
          /\ fired[k].p < PScale /\ fired[k].p > 0

RigFields == {"azimuth", "polar", "distance", "center", "fov", "roll"}

\* the rig properties a block reads from the rig in its start hook
ReadAtStart(key) ==
    CASE key = "dolly" -> {"distance"}
      [] key = "pan" -> {"azimuth"}
      [] key = "tilt" -> {"polar"}
      [] key = "roll" -> {"roll"}
      [] key = "zoom" -> {"fov"}
      [] key = "dollyZoom" -> {"fov", "distance"}
      [] key = "arc" -> {"azimuth", "distance"}
      [] key = "composite" -> {"azimuth", "polar", "distance"}
      [] key = "moveTo" -> {"azimuth", "polar", "distance", "center", "fov"}
      [] OTHER -> {}

\* the rig properties a block's update hook may write
WrittenFields(key, cfg) ==
    CASE key \in {"dolly", "tilt", "arc", "zoom"} -> AbsoluteFields(key, cfg)
      [] key = "pan" -> {"azimuth", "center"}
      [] key \in {"truck", "pedestal"} -> {"center"}
      [] key = "roll" -> {"roll"}
      [] key = "dollyZoom" -> {"fov", "distance"}
      [] key = "composite" -> AbsoluteFields(key, cfg) \cup {"center"}
      [] key = "moveTo" -> RigFields
      [] key = "bezierCurve" -> {"azimuth", "polar", "distance", "center"}

\* C16: when the config of a block has a startState, it has been applied
\* once when the block has started: every property it gives was read by the
\* block's captures as the startState left it, and holds that value for as
\* long as the block does not write it.
C16_StartStateFirst ==
    (tl[1].st[1].prog >= 0 /\ tl[1].segs[1].cfg.startState # {}) =>
        \A f \in {h \in RigFields : Overridden(tl[1].segs[1].cfg, h)} :
            /\ f \in ReadAtStart(tl[1].segs[1].key)
                  => FromValue(tl[1].st[1], f) = RigValue(BenchCaptured, f)
            /\ f \notin WrittenFields(tl[1].segs[1].key, tl[1].segs[1].cfg)
                  => RigValue(rig, f) = RigValue(BenchCaptured, f)

\* the value a startState gives for a rig property, in the rig's units
StartValue(ss, f) ==
    CASE f = "azimuth" -> <<Coalesce(ss.azimuth, 0) * PScale>>
      [] f = "polar" -> <<Coalesce(ss.polar, 0) * PScale>>
      [] f = "distance" -> <<Coalesce(ss.distance, 0) * PScale>>
      [] f = "center" -> <<Coalesce(ss.center, <<0, 0>>)[1] * PScale,
                           Coalesce(ss.center, <<0, 0>>)[2] * PScale>>
      [] f = "fov" -> <<Coalesce(ss.fov, 0) * PScale>>
      [] f = "roll" -> <<Coalesce(ss.roll, 0) * PScale>>

\* the rig properties the first block has left as its start hook set them
Untouched ==
    RigFields \ WrittenFields(tl[1].segs[1].key, tl[1].segs[1].cfg)

\* C17: after a block whose start hook applies a startState has started,
\* every rig property the startState gives holds the given value whatever
\* the rig held before (roll r gives roll r), and every property it does not
\* give holds what the rig held before.
C17_Snap ==
    (/\ tl[1].st[1].prog >= 0
     /\ tl[1].segs[1].cfg.startState # {}
     /\ tl[1].segs[1].key # "bezierCurve") =>
        \A f \in Untouched :
            RigValue(rig, f)
              = IF Overridden(tl[1].segs[1].cfg, f)
                THEN StartValue(Coalesce(tl[1].segs[1].cfg.startState, NoState), f)
                ELSE RigValue(rig0, f)

NoTo == [azimuth |-> None, polar |-> None, distance |-> None, target |-> None]

\* what a moveTo config gives for a rig property: by endState, by "to"
GivenByEndState(cfg, f) ==
    CASE f = "azimuth" -> Coalesce(cfg.endState, NoState).azimuth # {}
      [] f = "polar" -> Coalesce(cfg.endState, NoState).polar # {}
      [] f = "distance" -> Coalesce(cfg.endState, NoState).distance # {}
      [] f = "center" -> Coalesce(cfg.endState, NoState).center # {}
      [] f = "fov" -> Coalesce(cfg.endState, NoState).fov # {}

GivenByTo(cfg, f) ==
    CASE f = "azimuth" -> Coalesce(cfg.to, NoTo).azimuth # {}
      [] f = "polar" -> Coalesce(cfg.to, NoTo).polar # {}
      [] f = "distance" -> Coalesce(cfg.to, NoTo).distance # {}
      [] f = "center" -> Coalesce(cfg.to, NoTo).target # {}
      [] f = "fov" -> FALSE

MoveToFields == {"azimuth", "polar", "distance", "center", "fov"}

\* C18: in a moveTo, a property among azimuth, polar, distance, center and
\* fov given neither by endState nor by "to" holds after every update the
\* value the rig had at the block's start; a property given by both goes to
\* the endState value (the azimuth to an angle congruent to it).
C18_OmittedHeld ==
    (tl[1].segs[1].key = "moveTo" /\ tl[1].st[1].prog >= 0) =>
        \A f \in MoveToFields :
            /\ (~GivenByEndState(tl[1].segs[1].cfg, f)
                /\ ~GivenByTo(tl[1].segs[1].cfg, f))
                  => RigValue(rig, f) = RigValue(BenchCaptured, f)
            /\ (/\ GivenByEndState(tl[1].segs[1].cfg, f)
                /\ GivenByTo(tl[1].segs[1].cfg, f)
                /\ tl[1].st[1].prog = PScale)
                  => IF f = "azimuth"
                     THEN (rig.azimuth
                             - StartValue(Coalesce(tl[1].segs[1].cfg.endState,
                                                   NoState), f)[1])
                          % FullTurn = 0
                     ELSE RigValue(rig, f)
                            = StartValue(Coalesce(tl[1].segs[1].cfg.endState,
                                                  NoState), f)

\* C18 witness: a moveTo whose endState and "to" both give the azimuth,
\* with different values, and neither gives the polar angle, has been
\* updated at an overshooting progress and then finished away from where it
\* started.
C18_Witness ==
    /\ tl[1].segs[1].key = "moveTo"
    /\ tl[1].st[1].prog = PScale
    /\ GivenByEndState(tl[1].segs[1].cfg, "azimuth")
    /\ GivenByTo(tl[1].segs[1].cfg, "azimuth")
    /\ Coalesce(tl[1].segs[1].cfg.endState, NoState).azimuth
          # Coalesce(tl[1].segs[1].cfg.to, NoTo).azimuth
    /\ ~GivenByEndState(tl[1].segs[1].cfg, "polar")
    /\ ~GivenByTo(tl[1].segs[1].cfg, "polar")
    /\ rig.azimuth # rig0.azimuth
    /\ \E j \in 1..Len(fired) : fired[j].p > PScale

\* C19: in a moveTo whose endState gives a roll, the roll written at
\* progress 0 is the roll the rig had when the block started, and the roll
\* at progress 1 is endState.roll.
C19_RollAbsolute ==
    (/\ tl[1].segs[1].key = "moveTo"
     /\ Coalesce(tl[1].segs[1].cfg.endState, NoState).roll # {}) =>
        /\ tl[1].st[1].prog = 0 => rig.roll = BenchCaptured.roll
        /\ tl[1].st[1].prog = PScale
              => <<rig.roll>>
                   = StartValue(Coalesce(tl[1].segs[1].cfg.endState, NoState),
                                "roll")

\* C20: a bezierCurve block whose config has no bezierCurve object occupies
\* its configured duration (3 s by default) and leaves the rig alone: the
\* rig is as it was until that time has passed, and the next block has
\* started only after it.
C20_EmptySlot ==
    (/\ tl[1].segs[1].key = "bezierCurve"
     /\ tl[1].segs[1].cfg.bezierCurve = {}
     /\ tl[1].time <= Duration("bezierCurve", tl[1].segs[1].cfg)) =>
        /\ rig = rig0
        /\ \A i \in 2..Len(tl[1].segs) : tl[1].st[i].prog = -1

\* ------------------------------------- blocks on a camera with no field of view
\* controls.camera is not a THREE.PerspectiveCamera
OrthoRigs == {[r EXCEPT !.perspective = FALSE] : r \in BenchRigs}

OrthoSpec == BenchInitOn(OrthoRigs) /\ [][BlockNext]_vars

\* C21: on a camera that is not a perspective camera no block writes the
\* field of view; a zoom block leaves the rig as its start left it at every
\* frame, and a moveTo still writes the interpolated azimuth, polar angle,
\* distance and center at every frame.
C21_NoFovWrite ==
    /\ rig.fov = rig0.fov
    /\ (tl[1].segs[1].key = "zoom" /\ tl[1].st[1].prog >= 0)
          => rig = BenchCaptured
    /\ (tl[1].segs[1].key = "moveTo" /\ tl[1].st[1].prog >= 0) =>
          /\ tl[1].st[1].from.az = BenchCaptured.azimuth
          /\ rig.azimuth = Lerp(BenchCaptured.azimuth, tl[1].st[1].end.az,
                                tl[1].st[1].prog)
          /\ rig.polar = Lerp(BenchCaptured.polar, tl[1].st[1].end.pol,
                              tl[1].st[1].prog)
          /\ rig.distance = Lerp(BenchCaptured.distance, tl[1].st[1].end.dist,
                                 tl[1].st[1].prog)
          /\ rig.center
               = <<Lerp(BenchCaptured.center[1], tl[1].st[1].end.center[1],
                        tl[1].st[1].prog),
                   Lerp(BenchCaptured.center[2], tl[1].st[1].end.center[2],
                        tl[1].st[1].prog)>>

\* C21 witness: on such a camera a moveTo whose endState gives a field of
\* view and a polar angle has finished with the polar angle changed.
C21_Witness ==
    /\ ~rig.perspective
    /\ tl[1].segs[1].key = "moveTo"
    /\ tl[1].st[1].prog = PScale
    /\ Coalesce(tl[1].segs[1].cfg.endState, NoState).fov # {}
    /\ rig.polar # rig0.polar

\* the apparent size of the subject, 2 * distance * tan(fov / 2), in
\* millionths of half a rig unit
SubjectSize(r) == r.distance * TanHalf(r.fov)

\* C22: at every frame of a dollyZoom on a perspective camera the subject
\* size the rig is left with is the one at the block's start, up to the
\* rounding of the distance to one unit of the rig.
C22_SubjectSize ==
    (tl[1].segs[1].key = "dollyZoom" /\ tl[1].st[1].prog >= 0) =>
        Abs(SubjectSize(rig) - SubjectSize(BenchCaptured)) <= TanHalf(rig.fov)

\* C22 witness: a dollyZoom has been updated at an overshooting progress and
\* then at a progress inside the block, the field of view and the distance
\* both away from their start values.
C22_Witness ==
    /\ tl[1].segs[1].key = "dollyZoom"
    /\ tl[1].st[1].prog > 0 /\ tl[1].st[1].prog < PScale
    /\ \E j \in 1..Len(fired) : fired[j].p > PScale
    /\ rig.fov # BenchCaptured.fov
    /\ rig.distance # BenchCaptured.distance

\* ------------------------------------------ the two forms of a sequence item
\* sequenceIds: string[] | BlockConfig[]
FormKeys == blockTypes \cup {"bogusType", "constructor"}

\* sequences of bare strings
FormCatalog ==
    UNION {[1..n -> {[str |-> <<k>>] : k \in FormKeys}] : n \in 1..MaxBlocks}

\* the same sequence written by the host as BlockConfig objects { id: s }
AsConfigs(seq) == [i \in 1..Len(seq) |-> Cfg(seq[i].str)]

FormInit ==
    /\ appPlaying = FALSE
    /\ propPlaying = FALSE
    /\ blocks \in FormCatalog
    /\ timers = 0
    /\ dirty = FALSE
    /\ keyDirty = FALSE
    /\ controls = TRUE
    /\ phase = "mounted"
    /\ timelineRef = 0
    /\ originalDampingRef = InitialDampingRef
    /\ hasCleanup = FALSE
    /\ tl = << >>
    /\ initDamping = OverrideDamping
    /\ rig = InitRig(OverrideDamping)
    /\ now = 0
    /\ rig0 = rig
    /\ files = {}
    /\ imports = << >>
    /\ cancelled = {}
    /\ fired = << >>
    /\ completions = << >>
    /\ cbDamping = << >>
    /\ captured = << >>
    /\ pauseOffset = 0
    /\ replay = [phase |-> "idle", damping |-> 0]
    /\ restarted = FALSE

\* sequenceIds.forEach over the strings (run 1) and over the configs (run
\* 2); a run whose assembly threw is marked
FormAssemble ==
    /\ tl = << >>
    /\ tl' = << NewTimeline(Assemble(blocks).segs),
                NewTimeline(Assemble(AsConfigs(blocks)).segs) >>
    /\ cancelled' = {r \in {1} : Assemble(blocks).threw}
                    \cup {r \in {2} : Assemble(AsConfigs(blocks)).threw}
    /\ UNCHANGED <<appPlaying, propPlaying, blocks, timers, dirty, keyDirty,
                   controls, phase, timelineRef, originalDampingRef, hasCleanup,
                   completions, cbDamping, initDamping, now, rig0, files, imports, captured,
                   pauseOffset, replay, rig, fired, restarted>>

FormNext == FormAssemble

FormSpec == FormInit /\ [][FormNext]_vars

\* C23: a sequence of bare strings and the same sequence given as
\* BlockConfig objects { id: s } resolve to the same factories with the same
\* options: the assembled segments are the same, and so is whether the
\* assembly threw.
C23_FormsAgree ==
    tl # << >> =>
        /\ tl[1].segs = tl[2].segs
        /\ (1 \in cancelled) = (2 \in cancelled)

\* C23 witness: a sequence of two bare strings has been assembled, one
\* resolved to its factory and the other skipped.
C23_Witness ==
    /\ tl # << >>
    /\ Len(blocks) > 1
    /\ Len(tl[1].segs) = 1
    /\ tl[1].segs[1].cfg = Cfg(<<tl[1].segs[1].key>>)
    /\ cancelled = {}

\* ------------------------------------------------- importing a sequence file
\* What JSON.parse gives: null, a number, a string, an array or an object.
\* Of an object the members the import reads are kept: id and blocks, each
\* absent ({}) or given ({value}).
JNull == [kind |-> "null", val |-> "", items |-> << >>, id |-> {}, blocks |-> {}]

JNumber(n) == [JNull EXCEPT !.kind = "number", !.val = ToString(n)]

JString(str) == [JNull EXCEPT !.kind = "string", !.val = str]

JArray(items) == [JNull EXCEPT !.kind = "array", !.items = items]

JObject(id, bs) == [JNull EXCEPT !.kind = "object", !.id = id, !.blocks = bs]

\* !v
Falsy(v) ==
    \/ v.kind = "null"
    \/ v.kind = "string" /\ v.val = ""
    \/ v.kind = "number" /\ v.val = "0"

\* the elements a block list may hold
GoodElements == {JObject({JString("dolly")}, {}), JObject({JString("pan")}, {})}

Dolly == JObject({JString("dolly")}, {})

BadElements ==
    {JObject({}, {}), JObject({JString("")}, {}), JObject({JNumber(7)}, {}),
     JObject({JNull}, {}), JNull, JString("dolly"), JNumber(0)}

ValidLists == {<< >>, <<Dolly, JObject({JString("pan")}, {})>>}

InvalidLists ==
    {<<e>> : e \in BadElements}
    \cup {<<Dolly, e>> : e \in {JObject({}, {}), JNull}}

\* { version: "1.0", blocks: ... }
Wrapper(v) == JObject({}, {v})

\* fileContent: text that JSON.parse rejects, or the text of a value
Contents ==
    {[valid |-> FALSE, data |-> JNull]}
    \cup {[valid |-> TRUE, data |-> d] :
            d \in {JArray(l) : l \in ValidLists \cup InvalidLists}
                  \cup {Wrapper(JArray(l)) : l \in ValidLists}
                  \cup {JNull, JNumber(5), Dolly, Wrapper(JArray(<<Dolly, JNull>>)),
                        Wrapper(JString("dolly")), Wrapper(JNull), Wrapper(Dolly)}}

\* as if only the first element of the list were validated
BadBlockFirstOnly(items) ==
    /\ Len(items) > 0
    /\ \/ items[1].kind = "null"
       \/ items[1].id = {}
       \/ \E v \in items[1].id : Falsy(v) \/ v.kind # "string"

\* for (const block of blocksToImport): block.id of null is a TypeError;
\* !block.id || typeof block.id !== 'string' throws
BadBlock(items) ==
    \E i \in 1..Len(items) :
        \/ items[i].kind = "null"
        \/ items[i].id = {}
        \/ \E v \in items[i].id : Falsy(v) \/ v.kind # "string"

\* as if only the bare array were supported
BlocksToImportBare(data) == data

\* data.blocks || data
BlocksToImport(data) ==
    IF \E v \in data.blocks : ~Falsy(v)
    THEN CHOOSE v \in data.blocks : TRUE
    ELSE data

\* the try block up to saveFile: nothing thrown
Accepted(content) ==
    /\ content.valid
    /\ content.data.kind # "null"
    /\ BlocksToImport(content.data).kind = "array"
    /\ ~BadBlock(BlocksToImport(content.data).items)

\* name || `imported-${new Date().toLocaleDateString()}`
FileName(name) == IF name = {} \/ name = {""} THEN "imported-today"
                  ELSE CHOOSE n \in name : TRUE

ExportedFile(content, name, t) ==
    [id |-> <<"file", ToString(t)>>, name |-> FileName(name),
     blocks |-> BlocksToImport(content.data).items, exportedAt |-> t,
     fileContent |-> content]

\* store.put(file): the key path is id
saveFile(fs, file) == {f \in fs : f.id # file.id} \cup {file}

\* importFileToStorage(fileContent, name); dbOk: the put request succeeds
ImportFile(content, name, dbOk) ==
    /\ Len(imports) < MaxImports
    /\ UNCHANGED <<blocks, now, sequencerVars>>
    /\ files' = IF Accepted(content) /\ dbOk
                THEN saveFile(files, ExportedFile(content, name, now))
                ELSE files
    /\ imports' = Append(imports,
                         [content |-> content, dbOk |-> dbOk, at |-> now,
                          returned |-> Accepted(content) /\ dbOk,
                          before |-> files, after |-> files',
                          sequence |-> blocks, sequenceAfter |-> blocks'])

ImportNext ==
    \/ \E content \in Contents, name \in {None, Some("walk")}, dbOk \in BOOLEAN :
          ImportFile(content, name, dbOk)
    \/ ClockTick

\* a file exported earlier
StoredFile ==
    ExportedFile([valid |-> TRUE, data |-> Wrapper(JArray(<<Dolly>>))],
                 Some("orbit"), 0)

\* the store with a working sequence loaded or none, and the file store
\* empty or with a file in it
ImportInit ==
    /\ appPlaying = FALSE
    /\ propPlaying = FALSE
    /\ blocks \in {SeqEmpty, SeqSkip}
    /\ timers = 0
    /\ dirty = FALSE
    /\ keyDirty = FALSE
    /\ controls = FALSE
    /\ phase = "mounted"
    /\ timelineRef = 0
    /\ originalDampingRef = InitialDampingRef
    /\ hasCleanup = FALSE
    /\ tl = << >>
    /\ initDamping = OverrideDamping
    /\ rig = InitRig(initDamping)
    /\ now = 0
    /\ rig0 = rig
    /\ files \in {{}, {StoredFile}}
    /\ imports = << >>
    /\ cancelled = {}
    /\ fired = << >>
    /\ completions = << >>
    /\ cbDamping = << >>
    /\ captured = << >>
    /\ pauseOffset = 0
    /\ replay = [phase |-> "idle", damping |-> 0]
    /\ restarted = FALSE

ImportSpec == ImportInit /\ [][ImportNext]_vars

\* the text is not JSON, or the block list is not an array, or an element
\* has no non-empty string id
Malformed(content) ==
    \/ ~content.valid
    \/ BlocksToImport(content.data).kind # "array"
    \/ \E i \in 1..Len(BlocksToImport(content.data).items) :
          LET e == BlocksToImport(content.data).items[i]
          IN  ~(e.kind = "object" /\ \E v \in e.id : v.kind = "string" /\ v.val # "")

\* C24: an import of content that is not valid JSON, whose block list is
\* not an array, or that holds an element without a non-empty string id
\* returns false and leaves the file store and the working sequence as they
\* were.
C24_RejectWhole ==
    \A i \in 1..Len(imports) :
        Malformed(imports[i].content) =>
            /\ ~imports[i].returned
            /\ imports[i].after = imports[i].before
            /\ imports[i].sequenceAfter = imports[i].sequence

\* C24 witness: with a file in the store and a working sequence loaded, a
\* list whose first element is a block and whose second has no id was
\* imported.
C24_Witness ==
    /\ files # {}
    /\ blocks # << >>
    /\ imports # << >>
    /\ imports[Len(imports)].dbOk
    /\ imports[Len(imports)].content.data.kind = "array"
    /\ Len(imports[Len(imports)].content.data.items) > 1
    /\ ~BadBlockFirstOnly(imports[Len(imports)].content.data.items)
    /\ Malformed(imports[Len(imports)].content)

\* the content is the text of the block array B, bare or in the wrapper
Carries(content, B) ==
    /\ content.valid
    /\ content.data = JArray(B) \/ content.data = Wrapper(JArray(B))

\* C25: for every valid block array B, the empty one included, an import of
\* the bare array B and an import of { version: "1.0", blocks: B } are both
\* accepted (the database willing) and both store a file whose block list
\* is B.
C25_FormsStoreSame ==
    \A i \in 1..Len(imports) : \A B \in ValidLists :
        (Carries(imports[i].content, B) /\ imports[i].dbOk) =>
            /\ imports[i].returned
            /\ \E f \in imports[i].after :
                  /\ f.id = <<"file", ToString(imports[i].at)>>
                  /\ f.blocks = B
                  /\ f.fileContent = imports[i].content

\* C25 witness: the wrapper form of a non-empty block array was imported
\* and stored next to an older file.
C25_Witness ==
    /\ imports # << >>
    /\ imports[Len(imports)].returned
    /\ imports[Len(imports)].content.data.kind = "object"
    /\ \E f \in files : f.fileContent = imports[Len(imports)].content
                        /\ f.blocks # << >>
    /\ StoredFile \in files

\* ------------------------------------------------ a block executed once more
\* as if the second execution went on with the closure state of the first
ExecuteResuming(tls, seq) ==
    Append([tls EXCEPT ![Len(tls)].status = "killed"],
           [NewTimeline(Compose(seq)) EXCEPT !.st = tls[Len(tls)].st])

\* the timeline in play is killed and block.execute(ctx) is called again:
\* gsap.timeline(), progressProxy and the captures are new objects
Execute(tls, seq) ==
    Append([tls EXCEPT ![Len(tls)].status = "killed"], NewTimeline(Compose(seq)))

\* a frame of the timeline in play, a single tween with opts.ease
RerunSeek(P) ==
    /\ tl[Len(tl)].status = "live"
    /\ Len(blocks) = 1
    /\ blocks[1].ease # {}
    /\ P = PScale \/ Len(fired) < MaxFrames
    /\ LET g == RenderSeg([rig |-> rig, tl |-> tl, fired |-> fired], Len(tl), 1,
                          tl[Len(tl)].segs[1], tl[Len(tl)].st[1], P)
       IN  /\ rig' = g.rig
           /\ fired' = g.fired
           /\ tl' = [g.tl EXCEPT ![Len(tl)].status =
                        IF P = PScale THEN "done" ELSE @]
    /\ UNCHANGED benchFrame

\* the execution in play is cancelled after a frame and the block is
\* executed again on the rig as the cancelled execution left it
Reexecute ==
    /\ Len(tl) < MaxRuns
    /\ tl[Len(tl)].status = "live"
    /\ tl[Len(tl)].st[1].prog >= 0
    /\ tl' = Execute(tl, blocks)
    /\ rig0' = rig
    /\ cancelled' = cancelled \cup {Len(tl)}
    /\ UNCHANGED <<appPlaying, propPlaying, blocks, timers, dirty, keyDirty,
                   controls, phase, timelineRef, originalDampingRef, hasCleanup,
                   completions, cbDamping, initDamping, now, captured,
                   pauseOffset, replay, rig, fired, files, imports, restarted>>

RerunNext ==
    \/ \E P \in ProgressValues \cup {PScale} : RerunSeek(P)
    \/ Reexecute

RerunSpec == BenchInit /\ [][RerunNext]_vars

\* C26: an execution of a block that follows one cancelled mid-run reads
\* its "from" values from the rig as it is at its own start, and an
\* incremental block translates by its amount times the progress of this
\* execution: by the full amount when it ends.
C26_FreshExecution ==
    (cancelled # {} /\ tl[Len(tl)].st[1].prog >= 0) =>
        /\ \A f \in ReadAtStart(tl[Len(tl)].segs[1].key) :
              FromValue(tl[Len(tl)].st[1], f) = RigValue(BenchCaptured, f)
        /\ tl[Len(tl)].segs[1].key \in IncrementalKeys =>
              /\ rig.center[1] - BenchCaptured.center[1]
                    = TruckAmounts(tl[1].segs[1].key, tl[1].segs[1].cfg)[1]
                      * tl[Len(tl)].st[1].prog
              /\ rig.center[2] - BenchCaptured.center[2]
                    = TruckAmounts(tl[1].segs[1].key, tl[1].segs[1].cfg)[2]
                      * tl[Len(tl)].st[1].prog

\* C26 witness: a truck was cancelled at half its progress, executed again
\* and has ended.
C26_Witness ==
    /\ cancelled # {}
    /\ tl[1].segs[1].key = "truck"
    /\ tl[1].st[1].prog = 27
    /\ tl[Len(tl)].st[1].prog = PScale
    /\ rig.center # rig0.center

\* what a composite leaves in a rig property after an update at progress P:
\* start + parameter * P where the parameter is configured, else the value
\* the property had when the block started
CompositeValue(cfg, c, f, P) ==
    CASE f = "azimuth" ->
            <<c.azimuth + (IF cfg.rotate # {}
                           THEN Coalesce(compositeRotate(cfg).azimuth, 0) ELSE 0) * P>>
      [] f = "polar" ->
            <<c.polar + (IF cfg.rotate # {}
                         THEN Coalesce(compositeRotate(cfg).polar, 0) ELSE 0) * P>>
      [] f = "distance" -> <<c.distance + Coalesce(cfg.dolly, 0) * P>>
      [] f = "center" ->
            <<c.center[1] + TruckAmounts("composite", cfg)[1] * P,
              c.center[2] + TruckAmounts("composite", cfg)[2] * P>>
      [] f = "fov" -> <<c.fov>>
      [] f = "roll" -> <<c.roll>>

\* C27: after every update of a composite each rig property whose parameter
\* is configured holds its start value plus the parameter times the one
\* progress of that update, and every other property holds the value it had
\* when the block started.
C27_CompositeWrites ==
    (tl[1].segs[1].key = "composite" /\ tl[1].st[1].prog >= 0) =>
        \A f \in RigFields :
            RigValue(rig, f)
              = CompositeValue(tl[1].segs[1].cfg, BenchCaptured, f, tl[1].st[1].prog)

\* C27 witness: a composite with a polar rotation and a dolly only has been
\* updated at an overshooting progress and then inside the block.
C27_Witness ==
    /\ tl[1].segs[1].key = "composite"
    /\ tl[1].segs[1].cfg.truck = {}
    /\ tl[1].segs[1].cfg.dolly # {}
    /\ compositeRotate(tl[1].segs[1].cfg).azimuth = {}
    /\ tl[1].st[1].prog = 27
    /\ \E j \in 1..Len(fired) : fired[j].p > PScale
    /\ rig.polar # BenchCaptured.polar
    /\ rig.azimuth = rig0.azimuth

\* C28: while no run has been started since the sequencer was mounted, the
\* rig's damping factor is the value the rig was given, whatever effect
\* cleanups ran (a sequence edit while idle, the first Play, an unmount).
C28_IdleCleanupKeepsDamping ==
    Len(tl) = 0 => rig.damping = initDamping

\* ------------------------------------------------- the store's operations by id
\* { ...b, ...data } for the properties data has
SpreadData(b, data) ==
    [k \in DOMAIN b |-> IF k \in DOMAIN data THEN data[k] ELSE b[k]]

\* updateBlock: blocks.map(b => b.id === id ? { ...b, ...data } : b)
updateBlock(bs, id, data) ==
    [i \in 1..Len(bs) |-> IF bs[i].id = id THEN SpreadData(bs[i], data) ELSE bs[i]]

IdDiffers(id, b) == b.id # id

\* removeBlock: blocks.filter(b => b.id !== id)
removeBlock(bs, id) ==
    SelectSeq(bs, LAMBDA b : IdDiffers(id, b))

\* blocks.findIndex(b => b.id === id), counted from 1 (0 is not found)
findIndex(bs, id) ==
    IF \E i \in 1..Len(bs) : bs[i].id = id
    THEN CHOOSE i \in 1..Len(bs) :
            bs[i].id = id /\ \A j \in 1..(i - 1) : bs[j].id # id
    ELSE 0

\* [a[i], a[j]] = [a[j], a[i]] on a copy
Swap(bs, i, j) == [bs EXCEPT ![i] = bs[j], ![j] = bs[i]]

moveBlockUp(bs, id) ==
    IF findIndex(bs, id) <= 1 THEN bs
    ELSE Swap(bs, findIndex(bs, id) - 1, findIndex(bs, id))

moveBlockDown(bs, id) ==
    IF findIndex(bs, id) < 1 \/ findIndex(bs, id) >= Len(bs) THEN bs
    ELSE Swap(bs, findIndex(bs, id), findIndex(bs, id) + 1)

\* the ids the editor can address: those of the blocks listed
ListedIds == {blocks[i].id : i \in 1..Len(blocks)}

\* what the editor's duration field sends
EditData == {[duration |-> {5}]}

UpdateBlock(id, data) ==
    /\ blocks' = updateBlock(blocks, id, data)
    /\ UNCHANGED <<now, sequencerVars, files, imports>>

RemoveBlock(id) ==
    /\ blocks' = removeBlock(blocks, id)
    /\ UNCHANGED <<now, sequencerVars, files, imports>>

MoveBlockUp(id) ==
    /\ blocks' = moveBlockUp(blocks, id)
    /\ UNCHANGED <<now, sequencerVars, files, imports>>

MoveBlockDown(id) ==
    /\ blocks' = moveBlockDown(blocks, id)
    /\ UNCHANGED <<now, sequencerVars, files, imports>>

EditNext ==
    \/ \E type \in blockTypes : AddBlock(type)
    \/ \E id \in ListedIds : \E data \in EditData : UpdateBlock(id, data)
    \/ \E id \in ListedIds : RemoveBlock(id)
    \/ \E id \in ListedIds : MoveBlockUp(id)
    \/ \E id \in ListedIds : MoveBlockDown(id)
    \/ ClockTick

\* The store under the editor's operations, from its empty initial state.
EditSpec == Init /\ [][EditNext]_vars

\* the positions at which two block lists of equal length differ
Changed(as, bs) == {i \in 1..Len(as) : as[i] # bs[i]}

\* the list as a multiset
BagOf(bs) == [b \in {bs[i] : i \in 1..Len(bs)} |->
                Cardinality({i \in 1..Len(bs) : bs[i] = b})]

\* the list is bs with the blocks at i and i + 1 exchanged
Swapped(as, bs, i) ==
    /\ i >= 1
    /\ i < Len(bs)
    /\ as = Swap(bs, i, i + 1)

\* C29: in every store state reached through addBlock, an operation given
\* the id of a listed block affects exactly that block: updateBlock changes
\* one block, removeBlock shortens the list by exactly one, moveBlockUp and
\* moveBlockDown exchange the block with its neighbour (or do nothing at the
\* boundary) and keep the multiset of blocks.
C29_ById ==
    [][\A id \in ListedIds :
         /\ (\E data \in EditData :
                /\ UpdateBlock(id, data)
                /\ \E i \in 1..Len(blocks) :
                      blocks[i].id = id /\ blocks[i].duration # data.duration)
               => Cardinality(Changed(blocks', blocks)) = 1
         /\ RemoveBlock(id) => Len(blocks') = Len(blocks) - 1
         /\ (MoveBlockUp(id) \/ MoveBlockDown(id)) =>
               /\ BagOf(blocks') = BagOf(blocks)
               /\ \/ blocks' = blocks
                  \/ \E i \in 1..Len(blocks) : Swapped(blocks', blocks, i)]_vars

\* a commit of the sequencer that leaves isPlaying true: the store's blocks
\* were replaced, or a waiting update of the host was rendered (Scene passes
\* a new onComplete at every render)
Recommit ==
    /\ propPlaying
    /\ propPlaying'
    /\ controls
    /\ (\E seq \in SeqCatalog : StoreChange(seq)) \/ Render

\* C30: while isPlaying is true, a commit with a new sequence array or a new
\* completion callback cancels the run in flight, whose completion callback
\* is not invoked, and starts a fresh run at block 0, the only one playing.
C30_RecommitRestarts ==
    [][(Recommit /\ timelineRef # 0 /\ tl[timelineRef].status = "live") =>
          /\ tl'[timelineRef].status = "killed"
          /\ completions'[timelineRef] = 0
          /\ timelineRef \in cancelled'
          /\ Len(tl') = Len(tl) + 1
          /\ tl'[Len(tl')].status = "live"
          /\ tl'[Len(tl')].time = 0
          /\ \A i \in 1..Len(tl'[Len(tl')].st) : tl'[Len(tl')].st[i].prog = -1
          /\ {r \in 1..Len(tl') : tl'[r].status = "live"} = {Len(tl')}]_vars

\* C30 witness: the effect ran again during playback: the run that had
\* applied frames is cancelled without a completion call and a second run
\* stands at its start.
C30_Witness ==
    /\ restarted
    /\ propPlaying
    /\ OrbitState(rig) # OrbitState(rig0)
    /\ 1 \in cancelled
    /\ tl[1].status = "killed"
    /\ completions[1] = 0
    /\ timelineRef = 2
    /\ tl[2].status = "live"
    /\ tl[2].time = 0
    /\ Len(tl[2].segs) > 0

====
